---- MODULE Spec2Model ----
(***************************************************************************)
(* A model of fastf1-livetiming: the legacy SignalR engine (Connection,     *)
(* Hub, Transport with its reconnect loop, consumer and producer tasks),    *)
(* the HubClient dispatch table, and the SignalRCoreClient supervisor.      *)
(*                                                                          *)
(* The legacy engine runs on one asyncio event loop: a coroutine runs       *)
(* without interruption between two awaits that really suspend, so every    *)
(* action below is the code between two such suspension points.             *)
(* SignalRCoreClient runs on threads; its actions are single reads and      *)
(* writes of the shared fields.                                             *)
(***************************************************************************)
EXTENDS Integers, Sequences, FiniteSets, TLC

\* ------------------------------------------------------------------ bounds
\* Successful socket opens modelled (each has its own consumer and producer).
MaxSess == 2
\* HubServer.invoke calls modelled (the Subscribe of each open included).
MaxInvokes == 3
\* Transport.close calls modelled.
MaxCloses == 2

VARIABLES
    \* ---- Transport / Connection (signalr/transport.py, connection.py)
    should_close,     \* Transport._should_close
    started,          \* Connection.started
    invoke_queue,     \* Transport.invoke_queue, oldest event first
    send_counter,     \* Connection.__send_counter
    runPc,            \* where the coroutine Transport.run is suspended
    sess,             \* number of successful socket opens so far
    cPc,              \* cPc[s]: where the consumer task of open s is
    pPc,              \* pPc[s]: where the producer task of open s is
    cCancel,          \* cCancel[s]: cancel() was called on that consumer
    pCancel,          \* pCancel[s]: cancel() was called on that producer
    pHeld,            \* pHeld[s]: the event that producer dequeued and is sending
    wire,             \* the 'I' of every frame written to a socket, in order
    \* ---- history of the run (observations, never read by the program)
    assigned,         \* the 'I' given to each invoke call, in call order
    closeCalls,       \* number of close() calls made
    closedBeforeRun,  \* close() was called before run() began
    closedInRun,      \* close() was called while run() was executing
    sessLog,          \* what the current attempt did, in order
    \* ---- HubClient (hub.py)
    debug,            \* SignalRClient.debug: _on_debug subscribed to error and received
    hubErr,           \* the 'E' field of the envelope being dispatched, or NoError
    errorFired,       \* the values the `error` hook was fired with for that envelope
    recvRan,          \* the subscribers of `received` that ran for it, in order
    hookRaised,       \* received.fire let an exception through to the consumer
    hookLogged,       \* subscriber exceptions the hooks caught and logged for it
    hubCall,          \* the last call of HubClient.on / HubClient.off, or NoCall
    hubName,          \* HubClient.name, as a sequence of character codes
    handlers,         \* HubClient.__handlers: method -> handler
    hubBusy,          \* an envelope was fired on `received` and dispatched
    hubIn,            \* the 'M' list of that envelope
    hubCalls,         \* the handler calls the dispatch made, in order
    hubWarnings,      \* the 'no handler' warnings the dispatch logged
    \* ---- SignalRCoreClient (signalrcore/client.py)
    timeout,          \* SignalRCoreClient.timeout, in seconds
    tokenOk,          \* no_auth is set or F1_TOKEN is present
    is_connected,     \* _is_connected
    manually_closed,  \* _manually_closed
    reconnecting,     \* _reconnecting
    has_received,     \* _has_received_message
    ageConn,          \* now - _connection_start_time, saturating
    ageMsg,           \* now - _t_last_message, saturating
    cur,              \* which connection object _connection is (0: None)
    cstate,           \* cstate[c]: the socket of connection object c
    wsPc,             \* wsPc[c]: where the callback thread of c is
    attempt,          \* attempt[c]: `attempt` of _send_subscribe on that thread
    rAt,              \* rAt[pc]: how many reconnect threads are at pc
    mPc,              \* where the thread that called start() is
    sink,             \* _output_file
    startupExit,      \* the startup policy of _supervise fired
    exitStopped,       \* the connection object _exit called stop() on
    msgLog,           \* the messages _on_message was called with, in arrival order
    written,          \* the arrival numbers of those written to the file, in order
    \* ---- SignalRClient (signalr/client.py): _async_start, _supervise, start
    lTimeout,         \* SignalRClient.timeout
    aPc,              \* where the main task, _async_start, is
    supPc,            \* where the task of _supervise is
    exit_signal,      \* SignalRClient._exit_signal is set
    output_file,      \* SignalRClient._output_file: "none", "open" or "closed"
    fileCloses,       \* how often _output_file.close() was executed
    connMade,         \* SignalRClient._connection is set
    connCloses,       \* how often _connection.close() was called
    lStarted,         \* Connection.started, as _supervise reads it
    lAge,             \* time.time() - self._t_last_message
    sigints,          \* the interrupts delivered to asyncio.run so far
    \* ---- Connection.register_hub and Connection.start (connection.py)
    hubs,             \* the keys of Connection.__hubs, in insertion order
    hubsMade,         \* how many Hub objects (and `received` subscribers of a
                      \* HubClient) were created
    hubRet,           \* the last call of register_hub: its name and its result
    activeHub,        \* Connection.hub: the name of the selected hub, or NoHub
    startPc,          \* Connection.start: "idle", "raised" or "run"
    \* ---- messages_from_raw (util.py)
    rawIn,            \* r: the lines given to the function
    rawPos,           \* how many of them the loop has gone through
    rawRet,           \* ret
    rawErr,           \* errorcount
    rawRaised,        \* the function raised
    \* ---- save (__main__.py)
    saveArgs,         \* args: file, topics, append, debug, timeout, auth
    savePc,           \* where save() is
    coreClient,       \* the arguments SignalRCoreClient was constructed with
    legacyClient,     \* the arguments SignalRClient was constructed with
    \* ---- _configure_connection (signalrcore/client.py)
    headers,          \* self.headers: the Cookie header
    connObj           \* the connection objects built, by number

tvars == << should_close, started, invoke_queue, send_counter, runPc, sess,
            cPc, pPc, cCancel, pCancel, pHeld, wire, assigned, closeCalls,
            closedBeforeRun, closedInRun, sessLog >>

hvars == << debug, hubErr, errorFired, recvRan, hookRaised, hookLogged, hubCall,
            hubName, handlers, hubBusy, hubIn, hubCalls, hubWarnings >>

gvars == << headers, connObj >>

avars == << saveArgs, savePc, coreClient, legacyClient >>

rvars == << rawIn, rawPos, rawRet, rawErr, rawRaised >>

nvars == << hubs, hubsMade, hubRet, activeHub, startPc >>

lvars == << lTimeout, aPc, supPc, exit_signal, output_file, fileCloses, connMade,
            connCloses, lStarted, lAge, sigints >>

\* What the run has put to the file, kept for the claims about its content.
svars == << msgLog, written >>

cvars == << timeout, tokenOk, attempt, is_connected, manually_closed, reconnecting,
            has_received, ageConn, ageMsg, cur, cstate, wsPc, rAt, mPc, sink,
                    startupExit, exitStopped >>

\* What the actions of the Transport, of the hub and of the core client leave
\* alone.
otherT == << hvars, cvars, svars, lvars, nvars, rvars, avars, gvars >>

otherH == << tvars, cvars, svars, lvars, nvars, rvars, avars, gvars >>

otherC == << tvars, hvars, svars, lvars, nvars, rvars, avars, gvars >>

otherL == << tvars, hvars, cvars, svars, nvars, rvars, avars, gvars >>

\* What the actions that follow a message into the file, the calls of
\* register_hub, Connection.start and messages_from_raw leave alone.
otherS == << tvars, hvars, lvars, nvars, rvars, avars, gvars >>

otherN == << tvars, hvars, cvars, svars, lvars, rvars, avars, gvars >>

otherNT == << hvars, cvars, svars, lvars, rvars, avars, gvars >>

otherR == << tvars, hvars, cvars, svars, lvars, nvars, avars, gvars >>

Sessions == 1..MaxSess

\* ------------------------------------------------------------ queue events
\* InvokeEvent(message): message is {H, M, A, I}; I identifies it here.
InvokeEvent(message) ==
    [kind |-> "Invoke", M |-> message.M, A |-> message.A, I |-> message.I]

\* CloseEvent(): the poison pill.
CloseEvent == [kind |-> "Close", M |-> "", A |-> << >>, I |-> -1]

NoEvent == [kind |-> "None", M |-> "", A |-> << >>, I |-> -1]

\* --------------------------------------------------------------- Connection
\* self.__send_counter += 1; return self.__send_counter
IncrementSendCounter_Post(c) == [counter |-> c + 1, id |-> c]

IncrementSendCounter(c) == [counter |-> c + 1, id |-> c + 1]

\* Transport.send: invoke_queue.put_nowait(InvokeEvent(message))
TransportSend_Front(q, message) == << InvokeEvent(message) >> \o q

TransportSend(q, message) == Append(q, InvokeEvent(message))

\* HubServer.invoke(method, *data): builds {H, M, A: data, I: next id} and
\* sends it.  The result is the new counter, queue and call history.
HubServerInvoke(c, q, hist, method, data) ==
    LET r == IncrementSendCounter(c)
    IN  [counter |-> r.counter,
         queue   |-> TransportSend(q, [M |-> method, A |-> data, I |-> r.id]),
         hist    |-> Append(hist, r.id)]

\* Transport.close: sets the flag, then puts a CloseEvent on the queue.
TransportClose_NoPill(q) == q

TransportClose(q) == Append(q, CloseEvent)

\* ------------------------------------------------------------ Transport.run
\* The except clauses of run: the listed connection errors, then Exception.
ExcKinds == {"ConnectionClosed", "ConnectionRefused", "Timeout", "Other"}

Absorbs_ListedOnly(kind) == kind \in {"ConnectionClosed", "ConnectionRefused", "Timeout"}

Absorbs(kind) == kind \in {"ConnectionClosed", "ConnectionRefused", "Timeout"} \/ kind = "Other"

\* The statements of the `async with` body, in order.
SessionSteps_ConsumerFirst == << "set_started", "master_handler", "fire_connected" >>

SessionSteps_NeverStarted == << "fire_connected", "master_handler" >>

SessionSteps == << "set_started", "fire_connected", "master_handler" >>

\* The subscribers of Connection.connected (SignalRClient._run_connection).
ConnectedSubscribers == << "on_connect_and_subscribe" >>

\* SignalRClient.topics, as configured.
Topics == << "TimingData", "Heartbeat" >>

\* The *data of invoke("Subscribe", self.topics): one argument, the list.
SubscribeArgs_Spread(topics) == topics

SubscribeArgs(topics) == << topics >>

\* SignalRClient._on_connect_and_subscribe: hub.server.invoke("Subscribe",
\* topics) inside try/except Exception; st.raises is whether it raised.
OnConnectAndSubscribe(st) ==
    IF st.raises THEN st
    ELSE LET r == HubServerInvoke(st.counter, st.queue, st.hist, "Subscribe",
                                  SubscribeArgs(Topics))
         IN  [st EXCEPT !.counter = r.counter, !.queue = r.queue, !.hist = r.hist]

\* EventHook.fire on `connected`: each subscriber in subscription order, awaited.
RECURSIVE FireConnected(_, _)
FireConnected(st, subs) ==
    IF subs = << >> THEN [st EXCEPT !.log = Append(@, "connected")]
    ELSE FireConnected(OnConnectAndSubscribe(st), Tail(subs))

\* One statement of the `async with` body.
SessionStep(st, step) ==
    CASE step = "set_started"    -> [st EXCEPT !.started = TRUE]
      [] step = "fire_connected" -> FireConnected(st, ConnectedSubscribers)
      [] step = "master_handler" -> [st EXCEPT !.tasks = TRUE, !.log = Append(@, "tasks")]

RECURSIVE RunSession(_, _)
RunSession(st, steps) ==
    IF steps = << >> THEN st
    ELSE RunSession(SessionStep(st, Head(steps)), Tail(steps))

\* `while not self._should_close` at the top of run's loop.
LoopTop(sc) == IF sc THEN "done" ELSE "negotiating"

\* The finally clause of run: started = False; sleep unless closing.
Finally(sc) == IF sc THEN LoopTop(sc) ELSE "sleeping"

\* An exception raised inside the try of run.
Raised(kind, sc) == IF Absorbs(kind) THEN Finally(sc) ELSE "crashed"

Active(pc) == pc \notin {"none", "done"}

\* A task on which cancel() was called has its wake-up in the loop's ready
\* queue; it runs before any later completion (I/O, timer) resumes run().
CancelInFlight == \E s \in Sessions : cCancel[s] \/ pCancel[s]

\* run(): self._should_close = False, then the first loop test.
TransportRun ==
    /\ runPc = "idle"
    /\ should_close' = FALSE
    /\ runPc' = LoopTop(FALSE)
    /\ sessLog' = << >>
    /\ UNCHANGED << started, invoke_queue, send_counter, sess, cPc, pPc, cCancel,
                    pCancel, pHeld, wire, assigned, closeCalls, closedBeforeRun,
                    closedInRun >>

RunStart ==
    /\ TransportRun
    /\ UNCHANGED otherT

\* WebSocketParameters(connection): the negotiation, which blocks the loop.
Negotiate ==
    /\ runPc = "negotiating"
    /\ \/ /\ runPc' = "connecting"
          /\ UNCHANGED started
       \/ /\ \E kind \in ExcKinds : runPc' = Raised(kind, should_close)
          /\ started' = FALSE
    /\ UNCHANGED << should_close, invoke_queue, send_counter, sess, cPc, pPc,
                    cCancel, pCancel, pHeld, wire, assigned, closeCalls,
                    closedBeforeRun, closedInRun, sessLog >>
    /\ UNCHANGED otherT

\* websockets.connect succeeded: the body of the `async with` up to the
\* await inside _master_handler.
ConnectOk ==
    /\ runPc = "connecting"
    /\ sess < MaxSess
    /\ Len(assigned) + Len(ConnectedSubscribers) <= MaxInvokes
    /\ \E raises \in BOOLEAN :
       LET st0 == [started |-> started, counter |-> send_counter,
                   queue |-> invoke_queue, hist |-> assigned,
                   log |-> << "open" >>, tasks |-> FALSE, raises |-> raises]
           st  == RunSession(st0, SessionSteps)
       IN  /\ started' = st.started
           /\ send_counter' = st.counter
           /\ invoke_queue' = st.queue
           /\ assigned' = st.hist
           /\ sessLog' = st.log
           /\ sess' = sess + 1
           /\ cPc' = [cPc EXCEPT ![sess + 1] = "ready"]
           /\ pPc' = [pPc EXCEPT ![sess + 1] = "ready"]
    /\ runPc' = "master_wait"
    /\ UNCHANGED << should_close, cCancel, pCancel, pHeld, wire, closeCalls,
                    closedBeforeRun, closedInRun >>
    /\ UNCHANGED otherT

\* websockets.connect raised.
ConnectFail ==
    /\ runPc = "connecting"
    /\ \E kind \in ExcKinds : runPc' = Raised(kind, should_close)
    /\ started' = FALSE
    /\ UNCHANGED << should_close, invoke_queue, send_counter, sess, cPc, pPc,
                    cCancel, pCancel, pHeld, wire, assigned, closeCalls,
                    closedBeforeRun, closedInRun, sessLog >>
    /\ UNCHANGED otherT

\* _master_handler: `for task in pending: task.cancel()`.
CancelPending_Forgotten(pc) == FALSE

CancelPending_TheFinished(pc) == pc = "done"

CancelPending(pc) == pc # "done"

\* asyncio.wait(FIRST_COMPLETED) returned, after both tasks ran their first
\* step: cancel the pending sibling, leave the `async with` (closing the
\* socket may suspend), then the finally clause.
MasterResume ==
    /\ runPc = "master_wait"
    /\ cPc[sess] = "done" \/ pPc[sess] = "done"
    /\ pPc[sess] # "ready"
    /\ cCancel' = [cCancel EXCEPT ![sess] = CancelPending(cPc[sess])]
    /\ pCancel' = [pCancel EXCEPT ![sess] = CancelPending(pPc[sess])]
    /\ \/ /\ runPc' = "closing_ws"
          /\ UNCHANGED started
       \/ /\ runPc' = Finally(should_close)
          /\ started' = FALSE
    /\ UNCHANGED << should_close, invoke_queue, send_counter, sess, cPc, pPc,
                    pHeld, wire, assigned, closeCalls, closedBeforeRun,
                    closedInRun, sessLog >>
    /\ UNCHANGED otherT

\* The socket's close finished (or raised): except clauses, then finally.
ExitSession ==
    /\ runPc = "closing_ws"
    /\ ~CancelInFlight
    /\ \/ runPc' = Finally(should_close)
       \/ \E kind \in ExcKinds : runPc' = Raised(kind, should_close)
    /\ started' = FALSE
    /\ UNCHANGED << should_close, invoke_queue, send_counter, sess, cPc, pPc,
                    cCancel, pCancel, pHeld, wire, assigned, closeCalls,
                    closedBeforeRun, closedInRun, sessLog >>
    /\ UNCHANGED otherT

\* asyncio.sleep(self._reconnect_delay) returned: the loop test.
SleepDone ==
    /\ runPc = "sleeping"
    /\ ~CancelInFlight
    /\ runPc' = LoopTop(should_close)
    /\ sessLog' = << >>
    /\ UNCHANGED << should_close, started, invoke_queue, send_counter, sess, cPc,
                    pPc, cCancel, pCancel, pHeld, wire, assigned, closeCalls,
                    closedBeforeRun, closedInRun >>
    /\ UNCHANGED otherT

\* The task of run() is cancelled (asyncio.run cancels the tasks that are left
\* when the main task ends): CancelledError is raised at the await run() is
\* suspended at, which no except clause of run catches. Inside the try the
\* finally clause runs, started = False and the sleep unless closing; at the
\* sleep of the finally clause the error leaves run() at once.
Cancellable == {"connecting", "master_wait", "closing_ws", "sleeping"}

AfterCancel(pc, sc) == IF pc = "sleeping" \/ sc THEN "cancelled" ELSE "cancel_sleep"

RunCancelled ==
    /\ runPc \in Cancellable
    /\ started' = FALSE
    /\ runPc' = AfterCancel(runPc, should_close)
    /\ UNCHANGED << should_close, invoke_queue, send_counter, sess, cPc, pPc,
                    cCancel, pCancel, pHeld, wire, assigned, closeCalls,
                    closedBeforeRun, closedInRun, sessLog >>
    /\ UNCHANGED otherT

\* The sleep of the finally clause is over and CancelledError leaves run().
CancelSleepDone ==
    /\ runPc = "cancel_sleep"
    /\ runPc' = "cancelled"
    /\ UNCHANGED << should_close, started, invoke_queue, send_counter, sess, cPc,
                    pPc, cCancel, pCancel, pHeld, wire, assigned, closeCalls,
                    closedBeforeRun, closedInRun, sessLog >>
    /\ UNCHANGED otherT

\* ------------------------------------------------- Transport._consumer_handler
\* `while not self._should_close: message = await ws.recv()`
ConsumerLoop(sc) == IF sc THEN "done" ELSE "recv"

\* What ws.recv() delivers: a feed envelope, an empty message, a payload that
\* loads() rejects, or ConnectionClosed.
FrameKinds == {"feed", "empty", "malformed", "closed"}

\* The body of the consumer's loop for one recv().  A feed envelope is fired
\* on `received` and its handler awaits the write to the file; an empty
\* message is skipped; an exception of loads() or ConnectionClosed ends the
\* task through `finally: return`.
ConsumerOnFrame(kind, sc) ==
    CASE kind = "feed"      -> "dispatch"
      [] kind = "empty"     -> ConsumerLoop(sc)
      [] kind = "malformed" -> "done"
      [] kind = "closed"    -> "done"

\* The first step of the consumer task.
ConsStart(s) ==
    /\ cPc[s] = "ready"
    /\ cPc' = [cPc EXCEPT ![s] = ConsumerLoop(should_close)]
    /\ UNCHANGED << should_close, started, invoke_queue, send_counter, runPc, sess,
                    pPc, cCancel, pCancel, pHeld, wire, assigned, closeCalls,
                    closedBeforeRun, closedInRun, sessLog >>
    /\ UNCHANGED otherT

\* ws.recv() returned or raised.
ConsRecv(s) ==
    /\ cPc[s] = "recv"
    /\ ~cCancel[s]
    /\ \E kind \in FrameKinds :
          /\ cPc' = [cPc EXCEPT ![s] = ConsumerOnFrame(kind, should_close)]
          /\ sessLog' = IF kind = "feed" /\ s = sess /\ sessLog # << >>
                           /\ sessLog[Len(sessLog)] # "dispatch"
                        THEN Append(sessLog, "dispatch")
                        ELSE IF kind = "malformed" /\ s = sess
                        THEN Append(sessLog, "malformed") ELSE sessLog
    /\ UNCHANGED << should_close, started, invoke_queue, send_counter, runPc, sess,
                    pPc, cCancel, pCancel, pHeld, wire, assigned, closeCalls,
                    closedBeforeRun, closedInRun >>
    /\ UNCHANGED otherT

\* received.fire(**data) returned: back to the loop test.
ConsDispatchDone(s) ==
    /\ cPc[s] = "dispatch"
    /\ ~cCancel[s]
    /\ cPc' = [cPc EXCEPT ![s] = ConsumerLoop(should_close)]
    /\ UNCHANGED << should_close, started, invoke_queue, send_counter, runPc, sess,
                    pPc, cCancel, pCancel, pHeld, wire, assigned, closeCalls,
                    closedBeforeRun, closedInRun, sessLog >>
    /\ UNCHANGED otherT

\* CancelledError is thrown at the consumer's await; `finally: return` ends it.
ConsCancelled(s) ==
    /\ cCancel[s]
    /\ cPc' = [cPc EXCEPT ![s] = "done"]
    /\ cCancel' = [cCancel EXCEPT ![s] = FALSE]
    /\ UNCHANGED << should_close, started, invoke_queue, send_counter, runPc, sess,
                    pPc, pCancel, pHeld, wire, assigned, closeCalls,
                    closedBeforeRun, closedInRun, sessLog >>
    /\ UNCHANGED otherT

\* ------------------------------------------------- Transport._producer_handler
\* The producer's branch on the dequeued event: an InvokeEvent is written
\* with `await ws.send`, a CloseEvent breaks out of the loop.
ProducerOnEvent_SendAll(e) == "send"

ProducerOnEvent(e) == IF e.kind = "Invoke" THEN "send" ELSE "done"

\* `event = await self.invoke_queue.get()` with an event available.
ProducerTake(s, q) ==
    LET e == Head(q)
    IN  /\ pPc' = [pPc EXCEPT ![s] = ProducerOnEvent(e)]
        /\ pHeld' = [pHeld EXCEPT ![s] = IF ProducerOnEvent(e) = "send" THEN e ELSE NoEvent]
        /\ invoke_queue' = Tail(q)

\* `while not self._should_close: event = await self.invoke_queue.get()`
ProducerLoop(s, sc, q) ==
    IF sc
    THEN /\ pPc' = [pPc EXCEPT ![s] = "done"]
         /\ pHeld' = [pHeld EXCEPT ![s] = NoEvent]
         /\ invoke_queue' = q
    ELSE IF q = << >>
         THEN /\ pPc' = [pPc EXCEPT ![s] = "get"]
              /\ pHeld' = [pHeld EXCEPT ![s] = NoEvent]
              /\ invoke_queue' = q
         ELSE ProducerTake(s, q)

\* The first step of the producer task; the consumer task, created before it,
\* has run its first step.
ProdStart(s) ==
    /\ pPc[s] = "ready"
    /\ cPc[s] # "ready"
    /\ ProducerLoop(s, should_close, invoke_queue)
    /\ UNCHANGED << should_close, started, send_counter, runPc, sess, cPc, cCancel,
                    pCancel, wire, assigned, closeCalls, closedBeforeRun,
                    closedInRun, sessLog >>
    /\ UNCHANGED otherT

\* The producer was blocked in get() and an event has been put.
ProdWake(s) ==
    /\ pPc[s] = "get"
    /\ ~pCancel[s]
    /\ invoke_queue # << >>
    /\ ProducerTake(s, invoke_queue)
    /\ UNCHANGED << should_close, started, send_counter, runPc, sess, cPc, cCancel,
                    pCancel, wire, assigned, closeCalls, closedBeforeRun,
                    closedInRun, sessLog >>
    /\ UNCHANGED otherT

\* ws.send returned: the frame is on the wire; task_done(); the loop test.
ProdSendOk(s) ==
    /\ pPc[s] = "send"
    /\ ~pCancel[s]
    /\ wire' = Append(wire, pHeld[s].I)
    /\ ProducerLoop(s, should_close, invoke_queue)
    /\ UNCHANGED << should_close, started, send_counter, runPc, sess, cPc, cCancel,
                    pCancel, assigned, closeCalls, closedBeforeRun, closedInRun,
                    sessLog >>
    /\ UNCHANGED otherT

\* ws.send raised (ConnectionClosed or any other): `finally: return`.
ProdSendFail(s) ==
    /\ pPc[s] = "send"
    /\ ~pCancel[s]
    /\ pPc' = [pPc EXCEPT ![s] = "done"]
    /\ pHeld' = [pHeld EXCEPT ![s] = NoEvent]
    /\ UNCHANGED << should_close, started, invoke_queue, send_counter, runPc, sess,
                    cPc, cCancel, pCancel, wire, assigned, closeCalls,
                    closedBeforeRun, closedInRun, sessLog >>
    /\ UNCHANGED otherT

\* CancelledError is thrown at the producer's await; `finally: return` ends it.
ProdCancelled(s) ==
    /\ pCancel[s]
    /\ pPc' = [pPc EXCEPT ![s] = "done"]
    /\ pHeld' = [pHeld EXCEPT ![s] = NoEvent]
    /\ pCancel' = [pCancel EXCEPT ![s] = FALSE]
    /\ UNCHANGED << should_close, started, invoke_queue, send_counter, runPc, sess,
                    cPc, cCancel, wire, assigned, closeCalls, closedBeforeRun,
                    closedInRun, sessLog >>
    /\ UNCHANGED otherT

\* ------------------------------------------------------------- the callers
\* Connection.close() -> Transport.close(), at any time.
CloseCall ==
    /\ closeCalls < MaxCloses
    /\ should_close' = TRUE
    /\ invoke_queue' = TransportClose(invoke_queue)
    /\ closeCalls' = closeCalls + 1
    /\ closedBeforeRun' = (closedBeforeRun \/ runPc = "idle")
    /\ closedInRun' = (closedInRun \/ runPc \notin {"idle", "done", "crashed"})
    /\ UNCHANGED << started, send_counter, runPc, sess, cPc, pPc, cCancel, pCancel,
                    pHeld, wire, assigned, sessLog >>
    /\ UNCHANGED otherT

\* hub.server.invoke(method, ...) by the application, at any time.
InvokeCall ==
    /\ Len(assigned) < MaxInvokes
    /\ LET r == HubServerInvoke(send_counter, invoke_queue, assigned, "Other", << >>)
       IN  /\ send_counter' = r.counter
           /\ invoke_queue' = r.queue
           /\ assigned' = r.hist
    /\ UNCHANGED << should_close, started, runPc, sess, cPc, pPc, cCancel, pCancel,
                    pHeld, wire, closeCalls, closedBeforeRun, closedInRun, sessLog >>
    /\ UNCHANGED otherT

\* ---------------------------------------------------------------- HubClient
\* Envelopes dispatched in one test: at most this many inner frames.
MaxFrames == 2

\* Names are sequences of character codes, so that str.lower() is computed.
\* "St", "sT", "st" and "Ot" stand for "Streaming", its case variants and
\* another hub. The hub is named "St" or "st"; frames carry "St", "sT", "Ot"
\* or no name at all.
NameSt == << 83, 116 >>

NameMixed == << 115, 84 >>

NameLower == << 115, 116 >>

NameOther == << 79, 116 >>

Methods == {"feed", "heartbeat"}

HandlerIds == {"h1", "h2"}

NoHandler == "none"

Args == {"x", "y"}

\* The 'A' a frame of method m carries: each method has its own payload.
ArgOf(m) == IF m = "feed" THEN "x" ELSE "y"

\* An inner frame of an envelope's 'M' list; hasH is whether it has an 'H'.
InnerFrames ==
    {[hasH |-> TRUE, H |-> n, M |-> m, A |-> ArgOf(m)] :
        n \in {NameSt, NameMixed, NameOther}, m \in Methods}
    \cup {[hasH |-> FALSE, H |-> << >>, M |-> m, A |-> ArgOf(m)] : m \in Methods}

Envelopes == UNION {[1..n -> InnerFrames] : n \in 0..MaxFrames}

\* str.lower() on one character and on a string.
LowerChar(c) == IF c >= 65 /\ c <= 90 THEN c + 32 ELSE c

Lower_CaseSensitive(str) == str

Lower(str) == [i \in DOMAIN str |-> LowerChar(str[i])]

\* inner_data.get("H", "")
GetH(f) == IF f.hasH THEN f.H ELSE << >>

\* HubClient.__init__.handle(**data): the loop over data.get("M", []).
RECURSIVE HubClientHandle_StopsAtMissing(_, _, _)
HubClientHandle_StopsAtMissing(name, table, msgs) ==
    IF msgs = << >> THEN [calls |-> << >>, warnings |-> 0]
    ELSE LET f == Head(msgs)
         IN  IF Lower(GetH(f)) = Lower(name) /\ table[f.M] = NoHandler
             THEN [calls |-> << >>, warnings |-> 1]
             ELSE LET rest == HubClientHandle_StopsAtMissing(name, table, Tail(msgs))
                  IN  IF Lower(GetH(f)) = Lower(name)
                      THEN [rest EXCEPT !.calls = << [h |-> table[f.M], a |-> f.A] >> \o @]
                      ELSE rest

RECURSIVE HubClientHandle(_, _, _)
HubClientHandle(name, table, msgs) ==
    IF msgs = << >> THEN [calls |-> << >>, warnings |-> 0]
    ELSE LET f    == Head(msgs)
             rest == HubClientHandle(name, table, Tail(msgs))
         IN  IF Lower(GetH(f)) = Lower(name)
             THEN IF table[f.M] # NoHandler
                  THEN [rest EXCEPT !.calls = << [h |-> table[f.M], a |-> f.A] >> \o @]
                  ELSE [rest EXCEPT !.warnings = @ + 1]
             ELSE rest

\* data.get("E") of an envelope without an 'E' field (or with a null one).
NoError == "none"

ErrorValues == {"boom"}

NoCall == [op |-> "none", m |-> "", h |-> "", raised |-> FALSE]

\* HubClient.on(method, handler) on the handler table: the first registration
\* wins.
HubClientOn_LastWins(table, m, h) == [table EXCEPT ![m] = h]

HubClientOn(table, m, h) ==
    IF table[m] = NoHandler THEN [table EXCEPT ![m] = h] ELSE table

\* HubClient.off(method, handler): `self.__handlers[method] -= handler`. The
\* table holds the handler itself (a coroutine function), which has no `-`:
\* the statement raises TypeError before it assigns, and the table is as it
\* was. When the method is not registered nothing is done.
HubClientOff(table, m, h) ==
    IF table[m] # NoHandler
    THEN [table |-> table, raised |-> TRUE]
    ELSE [table |-> table, raised |-> FALSE]

\* The subscribers of the `received` hook in registration order: handle_error
\* (Connection.__init__), the hub's handle (register_hub), and in debug mode
\* _on_debug (_run_connection).
ReceivedSubscribers(dbg) ==
    IF dbg THEN << "handle_error", "handle", "_on_debug" >>
    ELSE << "handle_error", "handle" >>

\* The subscribers of the `error` hook: _on_debug in debug mode, else none.
ErrorSubscribers(dbg) == IF dbg THEN << "_on_debug" >> ELSE << >>

\* _on_debug(self, **data) takes keyword arguments only: called with one
\* positional argument, as error.fire(error) calls it, it raises TypeError.
OnDebugRaises(positional) == positional

\* EventHook.fire: the subscribers are awaited in order; an exception of one of
\* them is caught and logged, and the others still run.
RECURSIVE EventHookFire(_, _)
EventHookFire(subs, raising) ==
    IF subs = << >> THEN [ran |-> << >>, logged |-> 0, raised |-> FALSE]
    ELSE LET rest == EventHookFire(Tail(subs), raising)
         IN  [ran    |-> << Head(subs) >> \o rest.ran,
              logged |-> rest.logged + (IF Head(subs) \in raising THEN 1 ELSE 0),
              raised |-> rest.raised]

\* handle_error(**data): whether the envelope is re-fired on `error`.
HandleErrorFires_Always(e) == TRUE

HandleErrorFires(e) == e # NoError

\* handle_error(**data) as a whole: error.fire(error) with the positional
\* value; what was fired, and what the `error` hook caught.
HandleError(e, dbg) ==
    IF HandleErrorFires(e)
    THEN LET r == EventHookFire(ErrorSubscribers(dbg),
                                IF OnDebugRaises(TRUE) THEN {"_on_debug"} ELSE {})
         IN  [fired |-> << e >>, logged |-> r.logged, raised |-> r.raised]
    ELSE [fired |-> << >>, logged |-> 0, raised |-> FALSE]

\* HubClient.on(method, handler).
HubOn(m, h) ==
    /\ ~hubBusy
    /\ handlers' = HubClientOn(handlers, m, h)
    /\ hubCall' = [op |-> "on", m |-> m, h |-> h, raised |-> FALSE]
    /\ UNCHANGED << debug, hubErr, errorFired, recvRan, hookRaised, hookLogged >>
    /\ UNCHANGED << hubName, hubBusy, hubIn, hubCalls, hubWarnings >>
    /\ UNCHANGED otherH

\* HubClient.off(method, handler).
HubOff(m, h) ==
    /\ ~hubBusy
    /\ LET r == HubClientOff(handlers, m, h)
       IN  /\ handlers' = r.table
           /\ hubCall' = [op |-> "off", m |-> m, h |-> h, raised |-> r.raised]
    /\ UNCHANGED << debug, hubErr, errorFired, recvRan, hookRaised, hookLogged >>
    /\ UNCHANGED << hubName, hubBusy, hubIn, hubCalls, hubWarnings >>
    /\ UNCHANGED otherH

\* connection.received.fire(**data): handle_error, then the hub's `handle`,
\* then in debug mode _on_debug(**data).
HubReceive(env, e) ==
    /\ ~hubBusy
    /\ hubBusy' = TRUE
    /\ hubIn' = env
    /\ hubErr' = e
    /\ hubCall' = NoCall
    /\ LET he == HandleError(e, debug)
           f  == EventHookFire(ReceivedSubscribers(debug),
                               IF he.raised THEN {"handle_error"} ELSE {})
           r  == HubClientHandle(hubName, handlers, env)
       IN  /\ errorFired' = he.fired
           /\ recvRan' = f.ran
           /\ hookRaised' = f.raised
           /\ hookLogged' = he.logged + f.logged
           /\ hubCalls' = IF "handle" \in {f.ran[i] : i \in DOMAIN f.ran}
                          THEN r.calls ELSE << >>
           /\ hubWarnings' = IF "handle" \in {f.ran[i] : i \in DOMAIN f.ran}
                             THEN r.warnings ELSE 0
    /\ UNCHANGED << debug, hubName, handlers >>
    /\ UNCHANGED otherH

\* received.fire returned; the consumer goes on to the next frame.
HubReturn ==
    /\ hubBusy
    /\ ~hookRaised
    /\ hubBusy' = FALSE
    /\ hubIn' = << >>
    /\ hubErr' = NoError
    /\ errorFired' = << >>
    /\ recvRan' = << >>
    /\ hookLogged' = 0
    /\ hubCalls' = << >>
    /\ hubWarnings' = 0
    /\ UNCHANGED << debug, hookRaised, hubCall, hubName, handlers >>
    /\ UNCHANGED otherH

\* Hub(name, connection): HubClient.__init__ with an empty handler table.
InitHub ==
    /\ debug \in BOOLEAN
    /\ hubErr = NoError
    /\ errorFired = << >>
    /\ recvRan = << >>
    /\ hookRaised = FALSE
    /\ hookLogged = 0
    /\ hubCall = NoCall
    /\ hubName \in {NameSt, NameLower}
    /\ handlers = [m \in Methods |-> NoHandler]
    /\ hubBusy = FALSE
    /\ hubIn = << >>
    /\ hubCalls = << >>
    /\ hubWarnings = 0

NextHub ==
    \/ \E m \in Methods, h \in HandlerIds : HubOn(m, h)
    \/ \E m \in Methods, h \in HandlerIds : HubOff(m, h)
    \/ \E env \in Envelopes, e \in ErrorValues \cup {NoError} : HubReceive(env, e)
    \/ HubReturn

\* -------------------------------------------------------- SignalRCoreClient
\* Connection objects one run builds, and reconnect threads alive at once.
MaxConns == 2

MaxRThreads == 2

\* The largest --timeout tried; 0 disables the startup policy.
MaxTimeout == 2

\* `time.time() - self._connection_start_time < 5` in _on_message.
GraceWindow == 5

\* `now - self._t_last_message > 15` in _supervise.
StallThreshold == 15

Timeouts == {0, MaxTimeout}

Conns == 1..MaxConns

\* The clock is read to the grain of the grace window, and an age is kept
\* until it has passed the largest value it is compared with.
TickLen == GraceWindow

ConnAgeLimit == IF MaxTimeout > GraceWindow THEN MaxTimeout ELSE GraceWindow

Older(age, limit) == IF age > limit THEN age ELSE age + TickLen

\* An age that has passed its limit, as `now - 0` has.
Old(limit) == (limit \div TickLen + 1) * TickLen

RPcs == {"test", "sleep", "start"}

RThreads == rAt["test"] + rAt["sleep"] + rAt["start"]

\* threading.Thread(target=self._reconnect_loop).start()
Spawn(at) == [at EXCEPT !["test"] = @ + 1]

Move(at, from, to) == [at EXCEPT ![from] = @ - 1, ![to] = @ + 1]

Leave(at, from) == [at EXCEPT ![from] = @ - 1]

\* connection.stop(): an open or opening socket starts closing; its close
\* callback follows.  On any other connection object it changes nothing.
Stop(cs, c) ==
    IF c # 0 /\ cs[c] \in {"starting", "open"} THEN [cs EXCEPT ![c] = "closing"] ELSE cs

\* `max_attempts = 3` in _send_subscribe.
SubscribeAttempts == 3

\* `attempt == max_attempts - 1`, line 132.
LastAttempt_Second(a) == a = SubscribeAttempts - 2

LastAttempt(a) == a = SubscribeAttempts - 1

\* The condition of the startup policy, lines 213-215.
StartupPolicy_AnyTimeout(to, age) == age > to

StartupPolicy(to, age) == to # 0 /\ age > to

\* The condition of the stall policy, line 225.
StallPolicy_Never(age) == FALSE

StallPolicy(age) == age > StallThreshold

\* ---- the thread that called start()
\* _run, lines 175-183: open the sink, then look for the token.
CoreRun ==
    /\ mPc = "init"
    /\ sink' = "open"
    /\ mPc' = IF tokenOk THEN "run_configure" ELSE "raised"
    /\ UNCHANGED << tokenOk, attempt, is_connected, manually_closed, reconnecting,
                    has_received, ageConn, ageMsg, cur, cstate, wsPc, rAt,
                    startupExit, exitStopped >>

RunOpen ==
    /\ CoreRun
    /\ UNCHANGED timeout
    /\ UNCHANGED otherC

\* _run, line 186: _configure_connection builds the first connection object.
ConfigureFirst ==
    /\ mPc = "run_configure"
    /\ cur' = cur + 1
    /\ mPc' = "run_start"
    /\ UNCHANGED << timeout, tokenOk, attempt, is_connected, manually_closed, reconnecting,
                    has_received, ageConn, ageMsg, cstate, wsPc, rAt, sink,
                    startupExit, exitStopped >>

RunConfigure ==
    /\ ConfigureFirst
    /\ UNCHANGED otherC

\* _run, line 187: start() returns at once, or raises.
RunStart_Core(ok) ==
    /\ mPc = "run_start"
    /\ IF ok
       THEN /\ cstate' = [cstate EXCEPT ![cur] = "starting"]
            /\ mPc' = "run_wait"
       ELSE /\ cstate' = cstate
            /\ mPc' = "run_except"
    /\ UNCHANGED << timeout, tokenOk, attempt, is_connected, manually_closed, reconnecting,
                    has_received, ageConn, ageMsg, cur, wsPc, rAt, sink,
                    startupExit, exitStopped >>
    /\ UNCHANGED otherC

\* _run, lines 190-193: the wait for _is_connected ends, or its 10 s run out.
RunWait ==
    /\ mPc = "run_wait"
    /\ mPc' = IF is_connected THEN "sup_init" ELSE "run_except"
    /\ UNCHANGED << timeout, tokenOk, attempt, is_connected, manually_closed, reconnecting,
                    has_received, ageConn, ageMsg, cur, cstate, wsPc, rAt, sink,
                    startupExit, exitStopped >>
    /\ UNCHANGED otherC

\* _run, lines 195-199: the initial connect failed.
RunExcept ==
    /\ mPc = "run_except"
    /\ IF ~manually_closed /\ ~reconnecting
       THEN /\ RThreads < MaxRThreads
            /\ reconnecting' = TRUE
            /\ rAt' = Spawn(rAt)
       ELSE UNCHANGED << reconnecting, rAt >>
    /\ mPc' = "sup_init"
    /\ UNCHANGED << timeout, tokenOk, attempt, is_connected, manually_closed,
                    has_received, ageConn, ageMsg, cur, cstate, wsPc, sink,
                    startupExit, exitStopped >>
    /\ UNCHANGED otherC

\* _supervise, line 202.
SupInit ==
    /\ mPc = "sup_init"
    /\ ageMsg' = 0
    /\ mPc' = "sup_loop"
    /\ UNCHANGED << timeout, tokenOk, attempt, is_connected, manually_closed, reconnecting,
                    has_received, ageConn, cur, cstate, wsPc, rAt, sink,
                    startupExit, exitStopped >>
    /\ UNCHANGED otherC

\* _supervise, lines 204-207 and 238: the sleep at the end of a round is
\* over, and the two tests at the top of the loop are made.
SupTop ==
    /\ mPc = "sup_loop"
    /\ mPc' = IF manually_closed THEN "returned"
              ELSE IF is_connected THEN "sup_check" ELSE "sup_loop"
    /\ UNCHANGED << timeout, tokenOk, attempt, is_connected, manually_closed, reconnecting,
                    has_received, ageConn, ageMsg, cur, cstate, wsPc, rAt, sink,
                    startupExit, exitStopped >>
    /\ UNCHANGED otherC

\* _supervise, lines 208-236: the two policies, evaluated on the flags as
\* they are now although _is_connected was read a moment before.
SupCheck ==
    /\ mPc = "sup_check"
    /\ IF ~has_received
       THEN IF StartupPolicy(timeout, ageConn)
            THEN /\ mPc' = "exit_flag"
                 /\ startupExit' = TRUE
                 /\ cstate' = cstate
            ELSE /\ mPc' = "sup_loop"
                 /\ UNCHANGED << startupExit, cstate >>
       ELSE IF StallPolicy(ageMsg)
            THEN /\ cstate' = Stop(cstate, cur)
                 /\ mPc' = "sup_loop"
                 /\ startupExit' = startupExit
            ELSE /\ mPc' = "sup_loop"
                 /\ UNCHANGED << startupExit, cstate >>
    /\ UNCHANGED << timeout, tokenOk, attempt, is_connected, manually_closed, reconnecting,
                    has_received, ageConn, ageMsg, cur, wsPc, rAt, sink,
                    exitStopped >>
    /\ UNCHANGED otherC

\* _exit, line 241.
ExitFlag ==
    /\ mPc = "exit_flag"
    /\ manually_closed' = TRUE
    /\ mPc' = "exit_stop"
    /\ UNCHANGED << timeout, tokenOk, attempt, is_connected, reconnecting,
                    has_received, ageConn, ageMsg, cur, cstate, wsPc, rAt, sink,
                    startupExit, exitStopped >>
    /\ UNCHANGED otherC

\* _exit, lines 242-246.
ExitStop ==
    /\ mPc = "exit_stop"
    /\ cstate' = Stop(cstate, cur)
    /\ exitStopped' = cur
    /\ mPc' = "exit_close"
    /\ UNCHANGED << timeout, tokenOk, attempt, is_connected, manually_closed, reconnecting,
                    has_received, ageConn, ageMsg, cur, wsPc, rAt, sink,
                    startupExit >>
    /\ UNCHANGED otherC

\* _exit, lines 247-248, and the return of start().
ExitClose ==
    /\ mPc = "exit_close"
    /\ sink' = IF sink = "unopened" THEN sink ELSE "closed"
    /\ mPc' = "returned"
    /\ UNCHANGED << timeout, tokenOk, attempt, is_connected, manually_closed, reconnecting,
                    has_received, ageConn, ageMsg, cur, cstate, wsPc, rAt,
                    startupExit, exitStopped >>
    /\ UNCHANGED otherC

\* start(), lines 252-256: KeyboardInterrupt is raised while _supervise goes
\* round its loop, and the handler calls _exit.
UserInterrupt ==
    /\ mPc \in {"sup_init", "sup_loop", "sup_check"}
    /\ mPc' = "exit_flag"
    /\ UNCHANGED << timeout, tokenOk, attempt, is_connected, manually_closed, reconnecting,
                    has_received, ageConn, ageMsg, cur, cstate, wsPc, rAt, sink,
                    startupExit, exitStopped >>
    /\ UNCHANGED otherC

\* Time passes while the thread of start() sleeps (lines 193, 236, 238).  A
\* callback is short against the grain of the clock: none is under way.
Tick ==
    /\ mPc \in {"run_wait", "sup_loop"}
    /\ \A c \in Conns : wsPc[c] = "idle"
    /\ ageConn <= ConnAgeLimit \/ ageMsg <= StallThreshold
    /\ ageConn' = Older(ageConn, ConnAgeLimit)
    /\ ageMsg' = Older(ageMsg, StallThreshold)
    /\ UNCHANGED << timeout, tokenOk, attempt, is_connected, manually_closed, reconnecting,
                    has_received, cur, cstate, wsPc, rAt, mPc, sink,
                    startupExit, exitStopped >>
    /\ UNCHANGED otherC

\* ---- the callback thread of connection object c
\* The socket opened: on_open, registered at line 170, is about to run.
WsOpen(c) ==
    /\ cstate[c] = "starting"
    /\ wsPc[c] = "idle"
    /\ cstate' = [cstate EXCEPT ![c] = "open"]
    /\ wsPc' = [wsPc EXCEPT ![c] = "oc_connected"]
    /\ UNCHANGED << timeout, tokenOk, attempt, is_connected, manually_closed, reconnecting,
                    has_received, ageConn, ageMsg, cur, rAt, mPc, sink,
                    startupExit, exitStopped >>
    /\ UNCHANGED otherC

\* _on_connect, lines 86-90: five writes, one at a time.
OnConnect(c) ==
    /\ wsPc[c] \in {"oc_connected", "oc_reconnecting", "oc_start", "oc_received", "oc_last"}
    /\ is_connected' = IF wsPc[c] = "oc_connected" THEN TRUE ELSE is_connected
    /\ reconnecting' = IF wsPc[c] = "oc_reconnecting" THEN FALSE ELSE reconnecting
    /\ ageConn' = IF wsPc[c] = "oc_start" THEN 0 ELSE ageConn
    /\ has_received' = IF wsPc[c] = "oc_received" THEN FALSE ELSE has_received
    /\ ageMsg' = IF wsPc[c] = "oc_last" THEN 0 ELSE ageMsg
    /\ wsPc' = [wsPc EXCEPT ![c] =
                  CASE @ = "oc_connected"    -> "oc_reconnecting"
                    [] @ = "oc_reconnecting" -> "oc_start"
                    [] @ = "oc_start"        -> "oc_received"
                    [] @ = "oc_received"     -> "oc_last"
                    [] @ = "oc_last"         -> "subscribe"]
    /\ UNCHANGED << timeout, tokenOk, attempt, manually_closed, cur, cstate, rAt, mPc, sink,
                    startupExit, exitStopped >>
    /\ UNCHANGED otherC

\* _send_subscribe, lines 123-141: one pass of `for attempt in range(3)`.
\* The send succeeds and the method returns; or it raises and, on the last
\* attempt, the connection that _connection is by then is stopped, else the
\* loop goes round after a sleep.
SubscribeAttempt(c, ok) ==
    /\ wsPc[c] = "subscribe"
    /\ IF ok
       THEN /\ wsPc' = [wsPc EXCEPT ![c] = "idle"]
            /\ attempt' = [attempt EXCEPT ![c] = 0]
            /\ cstate' = cstate
       ELSE IF LastAttempt(attempt[c])
            THEN /\ wsPc' = [wsPc EXCEPT ![c] = "idle"]
                 /\ attempt' = [attempt EXCEPT ![c] = 0]
                 /\ cstate' = Stop(cstate, cur)
            ELSE /\ wsPc' = wsPc
                 /\ attempt' = [attempt EXCEPT ![c] = @ + 1]
                 /\ cstate' = cstate
    /\ UNCHANGED << timeout, tokenOk, is_connected, manually_closed, reconnecting,
                    has_received, ageConn, ageMsg, cur, rAt, mPc, sink,
                    startupExit, exitStopped >>
    /\ UNCHANGED otherC

\* _on_message, line 62: a message arrived on the open socket of c.
OnMessage(c) ==
    /\ cstate[c] = "open"
    /\ wsPc[c] = "idle"
    /\ ageMsg' = 0
    /\ wsPc' = [wsPc EXCEPT ![c] = "om_received"]
    /\ UNCHANGED << timeout, tokenOk, attempt, is_connected, manually_closed, reconnecting,
                    has_received, ageConn, cur, cstate, rAt, mPc, sink,
                    startupExit, exitStopped >>
    /\ UNCHANGED otherC

\* _on_message, lines 63-83: the flag is set; what follows, the grace window
\* and the write, changes the file only.
OnMessageFlag(c) ==
    /\ wsPc[c] = "om_received"
    /\ has_received' = TRUE
    /\ wsPc' = [wsPc EXCEPT ![c] = "idle"]
    /\ UNCHANGED << timeout, tokenOk, attempt, is_connected, manually_closed, reconnecting,
                    ageConn, ageMsg, cur, cstate, rAt, mPc, sink,
                    startupExit, exitStopped >>
    /\ UNCHANGED otherC

\* The server or the network ends the open socket of c.
ServerDrop(c) ==
    /\ cstate[c] = "open"
    /\ cstate' = [cstate EXCEPT ![c] = "closing"]
    /\ UNCHANGED << timeout, tokenOk, attempt, is_connected, manually_closed, reconnecting,
                    has_received, ageConn, ageMsg, cur, wsPc, rAt, mPc, sink,
                    startupExit, exitStopped >>
    /\ UNCHANGED otherC

\* The socket of c is gone, after it closed or because it never opened:
\* on_close, registered at line 171, is about to run.
WsClosed(c) ==
    /\ cstate[c] \in {"starting", "closing"}
    /\ wsPc[c] = "idle"
    /\ cstate' = [cstate EXCEPT ![c] = "closed"]
    /\ wsPc' = [wsPc EXCEPT ![c] = "cl_connected"]
    /\ UNCHANGED << timeout, tokenOk, attempt, is_connected, manually_closed, reconnecting,
                    has_received, ageConn, ageMsg, cur, rAt, mPc, sink,
                    startupExit, exitStopped >>
    /\ UNCHANGED otherC

\* _on_close, line 96.
OnClose(c) ==
    /\ wsPc[c] = "cl_connected"
    /\ is_connected' = FALSE
    /\ wsPc' = [wsPc EXCEPT ![c] = "cl_reconnect"]
    /\ UNCHANGED << timeout, tokenOk, attempt, manually_closed, reconnecting,
                    has_received, ageConn, ageMsg, cur, cstate, rAt, mPc, sink,
                    startupExit, exitStopped >>
    /\ UNCHANGED otherC

\* _on_close, lines 99-105.
OnCloseReconnect(c) ==
    /\ wsPc[c] = "cl_reconnect"
    /\ IF ~manually_closed /\ ~reconnecting
       THEN /\ RThreads < MaxRThreads
            /\ reconnecting' = TRUE
            /\ rAt' = Spawn(rAt)
       ELSE UNCHANGED << reconnecting, rAt >>
    /\ wsPc' = [wsPc EXCEPT ![c] = "idle"]
    /\ UNCHANGED << timeout, tokenOk, attempt, is_connected, manually_closed,
                    has_received, ageConn, ageMsg, cur, cstate, mPc, sink,
                    startupExit, exitStopped >>
    /\ UNCHANGED otherC

\* ---- the reconnect threads
\* _reconnect_loop, line 109: the loop test.
ReconnectTest ==
    /\ rAt["test"] > 0
    /\ rAt' = IF ~is_connected /\ ~manually_closed
              THEN Move(rAt, "test", "sleep") ELSE Leave(rAt, "test")
    /\ UNCHANGED << timeout, tokenOk, attempt, is_connected, manually_closed, reconnecting,
                    has_received, ageConn, ageMsg, cur, cstate, wsPc, mPc, sink,
                    startupExit, exitStopped >>
    /\ UNCHANGED otherC

\* _reconnect_loop, lines 111-114: time.sleep(5) returns and
\* _configure_connection builds a new connection object.
ConfigureAgain ==
    /\ rAt["sleep"] > 0
    /\ cur < MaxConns
    /\ cur' = cur + 1
    /\ rAt' = Move(rAt, "sleep", "start")
    /\ UNCHANGED << timeout, tokenOk, attempt, is_connected, manually_closed, reconnecting,
                    has_received, ageConn, ageMsg, cstate, wsPc, mPc, sink,
                    startupExit, exitStopped >>

ReconnectConfigure ==
    /\ ConfigureAgain
    /\ UNCHANGED otherC

\* _reconnect_loop, lines 115-119: start() returns and the thread ends, or it
\* raises and the loop goes round.
ReconnectStart(ok) ==
    /\ rAt["start"] > 0
    /\ IF ok
       THEN /\ cstate' = IF cstate[cur] = "new"
                         THEN [cstate EXCEPT ![cur] = "starting"] ELSE cstate
            /\ rAt' = Leave(rAt, "start")
       ELSE /\ cstate' = cstate
            /\ rAt' = Move(rAt, "start", "test")
    /\ UNCHANGED << timeout, tokenOk, attempt, is_connected, manually_closed, reconnecting,
                    has_received, ageConn, ageMsg, cur, wsPc, mPc, sink,
                    startupExit, exitStopped >>
    /\ UNCHANGED otherC

\* SignalRCoreClient.__init__, lines 35-59.
InitCore ==
    /\ timeout \in Timeouts
    /\ tokenOk \in BOOLEAN
    /\ is_connected = FALSE
    /\ manually_closed = FALSE
    /\ reconnecting = FALSE
    /\ has_received = FALSE
    /\ ageConn = Old(ConnAgeLimit)
    /\ ageMsg = Old(StallThreshold)
    /\ cur = 0
    /\ cstate = [c \in Conns |-> "new"]
    /\ wsPc = [c \in Conns |-> "idle"]
    /\ attempt = [c \in Conns |-> 0]
    /\ rAt = [pc \in RPcs |-> 0]
    /\ mPc = "init"
    /\ sink = "unopened"
    /\ startupExit = FALSE
    /\ exitStopped = 0
    /\ msgLog = << >>
    /\ written = << >>

NextCore ==
    \/ RunOpen
    \/ RunConfigure
    \/ \E ok \in BOOLEAN : RunStart_Core(ok)
    \/ RunWait
    \/ RunExcept
    \/ SupInit
    \/ SupTop
    \/ SupCheck
    \/ ExitFlag
    \/ ExitStop
    \/ ExitClose
    \/ UserInterrupt
    \/ Tick
    \/ \E c \in Conns : WsOpen(c)
    \/ \E c \in Conns : OnConnect(c)
    \/ \E c \in Conns, ok \in BOOLEAN : SubscribeAttempt(c, ok)
    \/ \E c \in Conns : OnMessage(c)
    \/ \E c \in Conns : OnMessageFlag(c)
    \/ \E c \in Conns : ServerDrop(c)
    \/ \E c \in Conns : WsClosed(c)
    \/ \E c \in Conns : OnClose(c)
    \/ \E c \in Conns : OnCloseReconnect(c)
    \/ ReconnectTest
    \/ ReconnectConfigure
    \/ \E ok \in BOOLEAN : ReconnectStart(ok)

\* --------------------------------------------------- the file's content
\* The messages of one run that are followed into the file.
MaxMsgs == 2

\* What _on_message is called with: a list (a "feed" invocation), the
\* CompletionMessage of an invocation, or anything else.
MsgKinds == {"list", "completion", "other"}

\* `time.time() - self._connection_start_time < 5`, line 66.
InGrace_Inclusive(age) == age <= GraceWindow

InGrace(age) == age < GraceWindow

\* _on_message, lines 66-83, for a message of the given kind: dropped in the
\* grace window, ignored when it is neither a list nor a CompletionMessage,
\* else written; write() on the closed file raises ValueError, which the
\* except clause logs.
OnMessageOutcome(age, kind, file) ==
    IF InGrace(age) THEN "grace"
    ELSE IF kind \notin {"list", "completion"} THEN "ignored"
    ELSE IF file = "open" THEN "written"
    ELSE "failed"

\* The message the callback thread of c is handling.
Handling(c) == CHOOSE k \in DOMAIN msgLog : msgLog[k].c = c /\ msgLog[k].st \in MsgKinds

\* _on_message, line 62, for a message that is followed into the file.
SinkOnMessage(c, kind) ==
    /\ cstate[c] = "open"
    /\ wsPc[c] = "idle"
    /\ Len(msgLog) < MaxMsgs
    /\ ageMsg' = 0
    /\ wsPc' = [wsPc EXCEPT ![c] = "om_received"]
    /\ msgLog' = Append(msgLog, [c |-> c, st |-> kind])
    /\ UNCHANGED << timeout, tokenOk, attempt, is_connected, manually_closed, reconnecting,
                    has_received, ageConn, cur, cstate, rAt, mPc, sink,
                    startupExit, exitStopped, written >>
    /\ UNCHANGED otherS

\* _on_message, lines 63-83: the flag, the grace window and the write.
SinkOnMessageWrite(c) ==
    /\ wsPc[c] = "om_received"
    /\ has_received' = TRUE
    /\ wsPc' = [wsPc EXCEPT ![c] = "idle"]
    /\ LET k   == Handling(c)
           out == OnMessageOutcome(ageConn, msgLog[k].st, sink)
       IN  /\ msgLog' = [msgLog EXCEPT ![k].st = out]
           /\ written' = IF out = "written" THEN Append(written, k) ELSE written
    /\ UNCHANGED << timeout, tokenOk, attempt, is_connected, manually_closed, reconnecting,
                    ageConn, ageMsg, cur, cstate, rAt, mPc, sink,
                    startupExit, exitStopped >>
    /\ UNCHANGED otherS

\* The core client against a server that accepts every connect and every
\* subscription and never drops a socket; the messages are followed into the
\* file.
NextSink ==
    \/ RunOpen
    \/ RunConfigure
    \/ RunStart_Core(TRUE)
    \/ RunWait
    \/ RunExcept
    \/ SupInit
    \/ SupTop
    \/ SupCheck
    \/ ExitFlag
    \/ ExitStop
    \/ ExitClose
    \/ UserInterrupt
    \/ Tick
    \/ \E c \in Conns : WsOpen(c)
    \/ \E c \in Conns : OnConnect(c)
    \/ \E c \in Conns : SubscribeAttempt(c, TRUE)
    \/ \E c \in Conns, kind \in MsgKinds : SinkOnMessage(c, kind)
    \/ \E c \in Conns : SinkOnMessageWrite(c)
    \/ \E c \in Conns : WsClosed(c)
    \/ \E c \in Conns : OnClose(c)
    \/ \E c \in Conns : OnCloseReconnect(c)
    \/ ReconnectTest
    \/ ReconnectConfigure
    \/ ReconnectStart(TRUE)

\* ------------------------------------------- SignalRClient, the legacy façade
\* The interrupts of one run.
MaxSigints == 2

\* now - _t_last_message, in steps of the supervisor's sleep of 5 s, up to
\* the first value past every timeout tried.
LOlder(age) == IF age > MaxTimeout THEN age ELSE age + TickLen

\* _supervise, lines 119-121: the timeout policy.
TimeoutPolicy_AnyTimeout(to, age) == age > to

TimeoutPolicy(to, age) == to > 0 /\ age > to

\* _async_start, lines 133-139: the file is opened, the two tasks are created
\* and the main task waits for the exit signal.
AsyncStart ==
    /\ aPc = "init"
    /\ output_file' = "open"
    /\ supPc' = "created"
    /\ aPc' = "wait"
    /\ UNCHANGED << lTimeout, exit_signal, fileCloses, connMade, connCloses,
                    lStarted, lAge, sigints >>

AsyncStartOpen ==
    /\ AsyncStart
    /\ UNCHANGED otherL

\* _run_connection, lines 95-112: the Connection is made and started.
RunConnection ==
    /\ aPc # "init" /\ ~connMade
    /\ aPc \notin {"returned"}
    /\ connMade' = TRUE
    /\ UNCHANGED << lTimeout, aPc, supPc, exit_signal, output_file, fileCloses,
                    connCloses, lStarted, lAge, sigints >>
    /\ UNCHANGED otherL

\* The transport opened a session (started = True) and
\* _on_connect_and_subscribe, lines 82-91, set _t_last_message; or the
\* session ended (started = False).
ConnectedAge_Stale(age) == age

\* _on_connect_and_subscribe, line 89: _t_last_message = time.time().
ConnectedAge(age) == 0

SessionUp ==
    /\ connMade /\ ~lStarted /\ connCloses = 0 /\ aPc # "returned"
    /\ lStarted' = TRUE
    /\ lAge' = ConnectedAge(lAge)
    /\ UNCHANGED << lTimeout, aPc, supPc, exit_signal, output_file, fileCloses,
                    connMade, connCloses, sigints >>
    /\ UNCHANGED otherL

SessionDown ==
    /\ lStarted
    /\ lStarted' = FALSE
    /\ UNCHANGED << lTimeout, aPc, supPc, exit_signal, output_file, fileCloses,
                    connMade, connCloses, lAge, sigints >>
    /\ UNCHANGED otherL

\* _on_message, line 63: a feed frame resets the timestamp.
LegacyOnMessage ==
    /\ lStarted /\ aPc # "returned" /\ lAge > 0
    /\ lAge' = 0
    /\ UNCHANGED << lTimeout, aPc, supPc, exit_signal, output_file, fileCloses,
                    connMade, connCloses, lStarted, sigints >>
    /\ UNCHANGED otherL

\* _supervise, line 116.
LSupStart ==
    /\ supPc = "created"
    /\ lAge' = 0
    /\ supPc' = "loop"
    /\ UNCHANGED << lTimeout, aPc, exit_signal, output_file, fileCloses, connMade,
                    connCloses, lStarted, sigints >>
    /\ UNCHANGED otherL

\* _supervise, lines 117-129: one turn of the loop, up to the sleep.
LSupTurn ==
    /\ supPc = "loop"
    /\ IF exit_signal
       THEN supPc' = "done" /\ UNCHANGED exit_signal
       ELSE IF connMade /\ lStarted /\ TimeoutPolicy(lTimeout, lAge)
            THEN exit_signal' = TRUE /\ supPc' = "done"
            ELSE supPc' = "sleep" /\ UNCHANGED exit_signal
    /\ UNCHANGED << lTimeout, aPc, output_file, fileCloses, connMade, connCloses,
                    lStarted, lAge, sigints >>
    /\ UNCHANGED otherL

\* _supervise, line 129: the sleep of 5 s is over.
LSupWake ==
    /\ supPc = "sleep"
    /\ supPc' = "loop"
    /\ lAge' = LOlder(lAge)
    /\ UNCHANGED << lTimeout, aPc, exit_signal, output_file, fileCloses, connMade,
                    connCloses, lStarted, sigints >>
    /\ UNCHANGED otherL

\* _async_start, line 141: the exit signal is set and the wait returns.
WaitReturns ==
    /\ aPc = "wait" /\ exit_signal
    /\ aPc' = "fin_close"
    /\ UNCHANGED << lTimeout, supPc, exit_signal, output_file, fileCloses, connMade,
                    connCloses, lStarted, lAge, sigints >>
    /\ UNCHANGED otherL

\* _async_start, lines 143-149: the finally clause up to its sleep.
FinallyClose ==
    /\ aPc = "fin_close"
    /\ connCloses' = IF connMade THEN connCloses + 1 ELSE connCloses
    /\ aPc' = "fin_sleep"
    /\ UNCHANGED << lTimeout, supPc, exit_signal, output_file, fileCloses, connMade,
                    lStarted, lAge, sigints >>
    /\ UNCHANGED otherL

\* _async_start, lines 149-153: the sleep of 1 s is over; the file is closed
\* unless it is closed already.
FinallySink ==
    /\ aPc = "fin_sleep"
    /\ IF output_file = "open"
       THEN output_file' = "closed" /\ fileCloses' = fileCloses + 1
       ELSE UNCHANGED << output_file, fileCloses >>
    /\ aPc' = "done"
    /\ UNCHANGED << lTimeout, supPc, exit_signal, connMade, connCloses, lStarted,
                    lAge, sigints >>
    /\ UNCHANGED otherL

\* start(), lines 157-161: an interrupt reaches asyncio.run, which cancels the
\* main task; CancelledError is raised at the await the task is suspended
\* at. At the wait for the exit signal the finally clause runs; at the sleep
\* inside the finally clause the rest of the clause is skipped.
Interrupt ==
    /\ sigints < MaxSigints
    /\ aPc \in {"wait", "fin_sleep"}
    /\ sigints' = sigints + 1
    /\ aPc' = IF aPc = "wait" THEN "fin_close" ELSE "cancelled"
    /\ UNCHANGED << lTimeout, supPc, exit_signal, output_file, fileCloses, connMade,
                    connCloses, lStarted, lAge >>
    /\ UNCHANGED otherL

\* start(), lines 157-161: asyncio.run cancels the tasks that are left and
\* returns or raises; after an interrupt the handler sets the exit signal.
RunReturns ==
    /\ aPc \in {"done", "cancelled"}
    /\ aPc' = "returned"
    /\ supPc' = "done"
    /\ exit_signal' = (exit_signal \/ sigints > 0)
    /\ UNCHANGED << lTimeout, output_file, fileCloses, connMade, connCloses,
                    lStarted, lAge, sigints >>
    /\ UNCHANGED otherL

\* SignalRClient.__init__.
InitLegacy ==
    /\ lTimeout \in Timeouts
    /\ aPc = "init"
    /\ supPc = "none"
    /\ exit_signal = FALSE
    /\ output_file = "none"
    /\ fileCloses = 0
    /\ connMade = FALSE
    /\ connCloses = 0
    /\ lStarted = FALSE
    /\ lAge = 0
    /\ sigints = 0

NextLegacy ==
    \/ AsyncStartOpen
    \/ RunConnection
    \/ SessionUp
    \/ SessionDown
    \/ LegacyOnMessage
    \/ LSupStart
    \/ LSupTurn
    \/ LSupWake
    \/ WaitReturns
    \/ FinallyClose
    \/ FinallySink
    \/ Interrupt
    \/ RunReturns

\* ------------------------------------------------------------ specification
\* Connection.__init__ and Transport.__init__.
InitTransport ==
    /\ should_close = FALSE
    /\ started = FALSE
    /\ invoke_queue = << >>
    /\ send_counter = -1
    /\ runPc = "idle"
    /\ sess = 0
    /\ cPc = [s \in Sessions |-> "none"]
    /\ pPc = [s \in Sessions |-> "none"]
    /\ cCancel = [s \in Sessions |-> FALSE]
    /\ pCancel = [s \in Sessions |-> FALSE]
    /\ pHeld = [s \in Sessions |-> NoEvent]
    /\ wire = << >>
    /\ assigned = << >>
    /\ closeCalls = 0
    /\ closedBeforeRun = FALSE
    /\ closedInRun = FALSE
    /\ sessLog = << >>

\* The steps of the event loop's tasks.
TaskStep ==
    \E s \in Sessions :
        \/ ConsStart(s)
        \/ ConsDispatchDone(s)
        \/ ConsCancelled(s)
        \/ ProdStart(s)
        \/ ProdWake(s)
        \/ ProdSendOk(s)
        \/ ProdSendFail(s)
        \/ ProdCancelled(s)

NextTransport ==
    \/ RunStart
    \/ Negotiate
    \/ ConnectOk
    \/ ConnectFail
    \/ MasterResume
    \/ ExitSession
    \/ SleepDone
    \/ TaskStep
    \/ \E s \in Sessions : ConsRecv(s)
    \/ CloseCall
    \/ InvokeCall

NextCancel ==
    \/ NextTransport
    \/ RunCancelled
    \/ CancelSleepDone

\* ------------------------------- Connection.register_hub, Connection.start
HubNames == {"Streaming", "Other"}

NoHub == "none"

NoRet == [name |-> NoHub, ret |-> "none"]

Registered(hs, name) == \E i \in DOMAIN hs : hs[i] = name

\* register_hub(name), lines 44-51. The `return` is inside the
\* `if name not in self.__hubs` block: for a name that is registered the
\* method falls off its end and returns None, whatever `started` is.
ConnRegisterHub(hs, made, st, name) ==
    IF ~Registered(hs, name)
    THEN IF st
         THEN [hubs |-> hs, made |-> made, ret |-> "raised"]
         ELSE [hubs |-> Append(hs, name), made |-> made + 1, ret |-> "hub"]
    ELSE [hubs |-> hs, made |-> made, ret |-> "None"]

\* start, line 37: list(self.__hubs.values())[0] if self.__hubs else None.
SelectHub_Last(hs) == IF hs = << >> THEN NoHub ELSE hs[Len(hs)]

SelectHub(hs) == IF hs = << >> THEN NoHub ELSE hs[1]

\* The application calls connection.register_hub(name), at any time.
RegisterHub(name) ==
    /\ LET r == ConnRegisterHub(hubs, hubsMade, started, name)
       IN  /\ hubs' = r.hubs
           /\ hubsMade' = r.made
           /\ hubRet' = [name |-> name, ret |-> r.ret]
    /\ UNCHANGED << activeHub, startPc >>
    /\ UNCHANGED otherN

\* Connection.start(loop), lines 35-42: the hub is selected; without one the
\* call raises, else it awaits Transport.run, which runs up to its first
\* await at once.
ConnStart ==
    /\ startPc = "idle"
    /\ activeHub' = SelectHub(hubs)
    /\ IF SelectHub(hubs) = NoHub
       THEN startPc' = "raised" /\ UNCHANGED tvars
       ELSE startPc' = "run" /\ TransportRun
    /\ UNCHANGED << hubs, hubsMade, hubRet >>
    /\ UNCHANGED otherNT

\* Connection.__init__, lines 14-25.
InitConn ==
    /\ hubs = << >>
    /\ hubsMade = 0
    /\ hubRet = NoRet
    /\ activeHub = NoHub
    /\ startPc = "idle"

\* The Connection as its application drives it: hubs are registered, start
\* is called once, close at any time; the transport runs under it.
NextConn ==
    \/ \E name \in HubNames : RegisterHub(name)
    \/ ConnStart
    \/ Negotiate
    \/ ConnectOk
    \/ ConnectFail
    \/ MasterResume
    \/ ExitSession
    \/ SleepDone
    \/ TaskStep
    \/ \E s \in Sessions : ConsRecv(s)
    \/ CloseCall

\* ---------------------------------------------------- _configure_connection
\* What the pre-flight request does: a response with the AWSALBCORS cookie,
\* a response without it, or an exception of requests.
Negotiations == {"cookie1", "cookie2", "nocookie", "network_error", "timeout"}

NegotiationRaises(o) == o \in {"network_error", "timeout"}

\* line 147: r.cookies.get('AWSALBCORS', '').
CookieOf(o) == IF o = "cookie1" THEN "c1" ELSE IF o = "cookie2" THEN "c2" ELSE ""

NoHeader == "unset"

NoConn == [built |-> FALSE, headers |-> NoHeader, callbacks |-> {}, negotiation |-> "none"]

\* lines 149-150: except Exception: pass.
ConfigureCatches_Nothing(o) == FALSE

ConfigureCatches(o) == TRUE

\* _configure_connection, lines 143-172, for the headers so far and the
\* outcome of the pre-flight request: whether it raises, the headers then,
\* and the connection object built.
ConfigureConnection(hdrs, o) ==
    IF NegotiationRaises(o) /\ ~ConfigureCatches(o)
    THEN [raised |-> TRUE, headers |-> hdrs, conn |-> NoConn]
    ELSE LET h == IF NegotiationRaises(o) THEN hdrs ELSE CookieOf(o)
         IN  [raised |-> FALSE, headers |-> h,
              conn |-> [built |-> TRUE, headers |-> h,
                        callbacks |-> {"on_open", "on_close", "feed"},
                        negotiation |-> o]]

\* _run, lines 185-186 and 195: the first _configure_connection.
ConfigureRun(o) ==
    LET r == ConfigureConnection(headers, o)
    IN  /\ headers' = r.headers
        /\ IF r.raised
           THEN /\ mPc = "run_configure"
                /\ mPc' = "run_except"
                /\ UNCHANGED << timeout, tokenOk, attempt, is_connected, manually_closed,
                                reconnecting, has_received, ageConn, ageMsg, cur, cstate,
                                wsPc, rAt, sink, startupExit, exitStopped >>
                /\ UNCHANGED connObj
           ELSE /\ ConfigureFirst
                /\ connObj' = [connObj EXCEPT ![cur'] = r.conn]
        /\ UNCHANGED << tvars, hvars, svars, lvars, nvars, rvars, avars >>

\* _reconnect_loop, lines 111-114 and 117: _configure_connection in a
\* reconnect thread.
ConfigureReconnect(o) ==
    LET r == ConfigureConnection(headers, o)
    IN  /\ headers' = r.headers
        /\ IF r.raised
           THEN /\ rAt["sleep"] > 0
                /\ rAt' = Move(rAt, "sleep", "test")
                /\ UNCHANGED << timeout, tokenOk, attempt, is_connected, manually_closed,
                                reconnecting, has_received, ageConn, ageMsg, cur, cstate,
                                wsPc, mPc, sink, startupExit, exitStopped >>
                /\ UNCHANGED connObj
           ELSE /\ ConfigureAgain
                /\ connObj' = [connObj EXCEPT ![cur'] = r.conn]
        /\ UNCHANGED << tvars, hvars, svars, lvars, nvars, rvars, avars >>

\* __init__, lines 35 and 44.
InitConfigure ==
    /\ headers = NoHeader
    /\ connObj = [c \in Conns |-> NoConn]

NextConfigure ==
    \/ RunOpen
    \/ \E o \in Negotiations : ConfigureRun(o)
    \/ \E ok \in BOOLEAN : RunStart_Core(ok)
    \/ RunWait
    \/ RunExcept
    \/ ReconnectTest
    \/ \E o \in Negotiations : ConfigureReconnect(o)
    \/ \E ok \in BOOLEAN : ReconnectStart(ok)

\* ------------------------------------------------------------------- save
Files == {"a.txt", "b.txt"}

TopicLists == {Topics, << "CarData" >>}

SaveArgs ==
    [file : Files, topics : TopicLists, append : BOOLEAN, debug : BOOLEAN,
     timeout : Timeouts, auth : BOOLEAN]

NoArgs ==
    [file |-> "a.txt", topics |-> Topics, append |-> FALSE, debug |-> FALSE,
     timeout |-> 0, auth |-> FALSE]

NoClient == [file |-> "", topics |-> << >>, filemode |-> "", debug |-> FALSE, timeout |-> -1]

\* mode = "a" if args.append else "w"; the arguments both constructors get.
ClientArgs_OwnTimeout(args) ==
    [file |-> args.file, topics |-> args.topics,
     filemode |-> IF args.append THEN "a" ELSE "w",
     debug |-> args.debug, timeout |-> MaxTimeout]

ClientArgs(args) ==
    [file |-> args.file, topics |-> args.topics,
     filemode |-> IF args.append THEN "a" ELSE "w",
     debug |-> args.debug, timeout |-> args.timeout]

\* save, lines 16-22 and 31-34: with --auth the SignalRCoreClient is
\* constructed, whose __init__ raises ValueError in debug mode; without it
\* the SignalRClient.
SaveEnter ==
    /\ savePc = "enter"
    /\ IF saveArgs.auth
       THEN IF saveArgs.debug
            THEN /\ savePc' = "except"
                 /\ UNCHANGED << coreClient, legacyClient, timeout, lTimeout >>
            ELSE /\ coreClient' = ClientArgs(saveArgs)
                 /\ timeout' = ClientArgs(saveArgs).timeout
                 /\ savePc' = "core_made"
                 /\ UNCHANGED << legacyClient, lTimeout >>
       ELSE /\ legacyClient' = ClientArgs(saveArgs)
            /\ lTimeout' = ClientArgs(saveArgs).timeout
            /\ savePc' = "legacy_made"
            /\ UNCHANGED << coreClient, timeout >>
    /\ UNCHANGED saveArgs
    /\ UNCHANGED << tokenOk, attempt, is_connected, manually_closed, reconnecting,
                    has_received, ageConn, ageMsg, cur, cstate, wsPc, rAt, mPc, sink,
                    startupExit, exitStopped >>
    /\ UNCHANGED << aPc, supPc, exit_signal, output_file, fileCloses, connMade,
                    connCloses, lStarted, lAge, sigints >>
    /\ UNCHANGED << tvars, hvars, svars, nvars, rvars, gvars >>

\* save, line 23: client.start() of the SignalRCoreClient, up to the token
\* check of _run; an exception of it reaches the except clause of save.
SaveCoreStart ==
    /\ savePc = "core_made"
    /\ CoreRun
    /\ savePc' = IF mPc' = "raised" THEN "except" ELSE "core_running"
    /\ UNCHANGED << saveArgs, coreClient, legacyClient, timeout >>
    /\ UNCHANGED << tvars, hvars, svars, lvars, nvars, rvars, gvars >>

\* save, lines 24-29: the fallback to the SignalRClient.
SaveFallback ==
    /\ savePc = "except"
    /\ legacyClient' = ClientArgs(saveArgs)
    /\ lTimeout' = ClientArgs(saveArgs).timeout
    /\ savePc' = "legacy_made"
    /\ UNCHANGED << saveArgs, coreClient >>
    /\ UNCHANGED << aPc, supPc, exit_signal, output_file, fileCloses, connMade,
                    connCloses, lStarted, lAge, sigints >>
    /\ UNCHANGED << tvars, hvars, cvars, svars, nvars, rvars, gvars >>

\* save, lines 30 and 35: client.start() of the SignalRClient.
SaveLegacyStart ==
    /\ savePc = "legacy_made"
    /\ AsyncStart
    /\ savePc' = "legacy_running"
    /\ UNCHANGED << saveArgs, coreClient, legacyClient >>
    /\ UNCHANGED << tvars, hvars, cvars, svars, nvars, rvars, gvars >>

InitSave ==
    /\ saveArgs \in SaveArgs
    /\ savePc = "enter"
    /\ coreClient = NoClient
    /\ legacyClient = NoClient

NextSave ==
    \/ SaveEnter
    \/ SaveCoreStart
    \/ SaveFallback
    \/ SaveLegacyStart

\* ---------------------------------------------------------- messages_from_raw
\* The lines of one call.
MaxLines == 2

\* How a line is written. "json": a JSON object; "single": the same with
\* single quotes (str() of a dict); "python": with True/False; "apostrophe":
\* a JSON object with an apostrophe inside a string; "unbalanced": a quote is
\* missing; "none": with the literal None; "array": JSON, but a list.
Syntaxes == {"json", "single", "python", "apostrophe", "unbalanced", "none", "array"}

\* data.replace("'", '"').replace("True", "true").replace("False", "false"):
\* single quotes and Python booleans become JSON; an apostrophe inside a
\* string becomes a quote that ends the string too early.
Normalize_Identity(syntax) == syntax

Normalize(syntax) ==
    CASE syntax = "single"     -> "json"
      [] syntax = "python"     -> "json"
      [] syntax = "apostrophe" -> "unbalanced"
      [] OTHER                 -> syntax

\* json.loads(data): "object", "array", or JSONDecodeError.
Loads(syntax) ==
    CASE syntax = "json"  -> "object"
      [] syntax = "array" -> "array"
      [] OTHER            -> "JSONDecodeError"

\* The 'M' lists the lines carry: inner frames with their 'H', if any.
RawFrame(hasH, H) == [hasH |-> hasH, H |-> H]

RawFrameLists ==
    { << >>,
      << RawFrame(TRUE, NameSt) >>,
      << RawFrame(TRUE, NameMixed), RawFrame(TRUE, NameOther) >>,
      << RawFrame(FALSE, << >>), RawFrame(TRUE, NameLower) >> }

RawLines == [syntax : Syntaxes, M : RawFrameLists]

\* The 'A' of frame k of line i: each frame has its own payload.
PayloadOf(i, k) == 10 * i + k

\* The inner loop, lines 25-28: the 'A' of the frames whose H is "streaming"
\* in lower case, in order.
RECURSIVE StreamingPayloads(_, _, _)
StreamingPayloads(i, frames, k) ==
    IF k > Len(frames) THEN << >>
    ELSE (IF Lower(GetH(frames[k])) = NameLower THEN << PayloadOf(i, k) >> ELSE << >>)
         \o StreamingPayloads(i, frames, k + 1)

\* One turn of the loop over r, lines 16-28. data.get on a list raises
\* AttributeError, which nothing catches.
RawStep ==
    /\ rawPos < Len(rawIn)
    /\ ~rawRaised
    /\ LET i    == rawPos + 1
           line == rawIn[i]
           data == Loads(Normalize(line.syntax))
       IN  /\ rawPos' = i
           /\ CASE data = "JSONDecodeError" ->
                     rawErr' = rawErr + 1 /\ UNCHANGED << rawRet, rawRaised >>
                [] data = "array" ->
                     rawRaised' = TRUE /\ UNCHANGED << rawRet, rawErr >>
                [] OTHER ->
                     /\ rawRet' = rawRet \o StreamingPayloads(i, line.M, 1)
                     /\ UNCHANGED << rawErr, rawRaised >>
    /\ UNCHANGED rawIn
    /\ UNCHANGED otherR

\* messages_from_raw(r), lines 14-15.
InitRaw ==
    /\ rawIn \in UNION {[1..n -> RawLines] : n \in 0..MaxLines}
    /\ rawPos = 0
    /\ rawRet = << >>
    /\ rawErr = 0
    /\ rawRaised = FALSE

vars == << tvars, hvars, cvars, svars, lvars, nvars, rvars, avars, gvars >>

\* One client of each kind is constructed; each specification then runs one
\* of them and leaves the others as constructed.
InitAll == InitTransport /\ InitHub /\ InitCore /\ InitLegacy /\ InitConn /\ InitRaw /\ InitSave /\ InitConfigure

\* The legacy engine: Connection, Transport and their tasks.
Init == hubName = NameSt /\ debug = FALSE /\ timeout = 0 /\ tokenOk = TRUE /\ lTimeout = 0 /\ rawIn = << >> /\ saveArgs = NoArgs /\ InitAll

Next == NextTransport

Spec == Init /\ [][Next]_vars

\* The transport with the cancellation of run().
SpecCancel == Init /\ [][NextCancel]_vars

\* The inbound dispatch of HubClient.
InitH == timeout = 0 /\ tokenOk = TRUE /\ lTimeout = 0 /\ rawIn = << >> /\ saveArgs = NoArgs /\ InitAll

SpecHub == InitH /\ [][NextHub]_vars

\* SignalRCoreClient and its threads.
InitC == hubName = NameSt /\ debug = FALSE /\ lTimeout = 0 /\ rawIn = << >> /\ saveArgs = NoArgs /\ InitAll

\* The thread that called start() takes its next step whenever it has one:
\* its sleeps return and its calls return or raise.  Nothing obliges the
\* server to accept, to send or to drop, or the user to interrupt.
MainThread ==
    \/ RunOpen \/ RunConfigure \/ (\E ok \in BOOLEAN : RunStart_Core(ok))
    \/ RunWait \/ RunExcept \/ SupInit \/ SupTop \/ SupCheck
    \/ ExitFlag \/ ExitStop \/ ExitClose

FairCore == WF_vars(MainThread)

SpecCore == InitC /\ [][NextCore]_vars /\ FairCore

InitS == hubName = NameSt /\ debug = FALSE /\ timeout = 0 /\ tokenOk = TRUE /\ lTimeout = 0 /\ rawIn = << >> /\ saveArgs = NoArgs /\ InitAll

SpecSink == InitS /\ [][NextSink]_vars

InitL == hubName = NameSt /\ debug = FALSE /\ timeout = 0 /\ tokenOk = TRUE /\ rawIn = << >> /\ saveArgs = NoArgs /\ InitAll

SpecLegacy == InitL /\ [][NextLegacy]_vars

\* The event loop runs every task that is ready: the supervisor, the main
\* task of _async_start and asyncio.run.
FairLegacy ==
    /\ WF_vars(LSupStart) /\ WF_vars(LSupTurn) /\ WF_vars(LSupWake)
    /\ WF_vars(WaitReturns) /\ WF_vars(FinallyClose) /\ WF_vars(FinallySink)
    /\ WF_vars(RunReturns)

SpecLegacyFair == InitL /\ [][NextLegacy]_vars /\ FairLegacy

SpecConn == Init /\ [][NextConn]_vars

InitR == hubName = NameSt /\ debug = FALSE /\ timeout = 0 /\ tokenOk = TRUE /\ lTimeout = 0 /\ saveArgs = NoArgs /\ InitAll

SpecRaw == InitR /\ [][RawStep]_vars

InitA == hubName = NameSt /\ debug = FALSE /\ timeout = 0 /\ lTimeout = 0 /\ rawIn = << >> /\ InitAll

SpecSave == InitA /\ [][NextSave]_vars

SpecConfigure == Init /\ [][NextConfigure]_vars

\* What the code's scheduling guarantees: the event loop runs every task that
\* is ready, a negotiation, a connect, a socket close, a sleep, a write to the
\* file and a ws.send each return or raise.  Nothing obliges the server to
\* send a frame or the application to call close() or invoke().
FairTransport ==
    /\ WF_vars(Negotiate)
    /\ WF_vars(ConnectOk \/ ConnectFail)
    /\ WF_vars(MasterResume)
    /\ WF_vars(ExitSession)
    /\ WF_vars(SleepDone)
    /\ \A s \in Sessions :
          /\ WF_vars(ConsStart(s))
          /\ WF_vars(ConsDispatchDone(s))
          /\ WF_vars(ConsCancelled(s))
          /\ WF_vars(ProdStart(s))
          /\ WF_vars(ProdWake(s))
          /\ WF_vars(ProdSendOk(s) \/ ProdSendFail(s))
          /\ WF_vars(ProdCancelled(s))

FairSpec == Init /\ [][Next]_vars /\ FairTransport

\* ------------------------------------------------------------------ claims
Count(seq, x) == Cardinality({i \in DOMAIN seq : seq[i] = x})

\* C1: the k-th invoke call made on one Connection (k = 0..N-1) is given
\* 'I' = k: the ids start at 0, grow by one per call, and no failure,
\* reconnect or close resets the counter.
C1_SequenceIds ==
    /\ \A k \in DOMAIN assigned : assigned[k] = k - 1
    /\ send_counter = Len(assigned) - 1

C1_Witness ==
    /\ Len(assigned) = MaxInvokes
    /\ sess = MaxSess
    /\ closeCalls > 0

\* C2: at most one consumer and at most one producer are active at any time,
\* and once `connected` has fired for an open, the consumer and the producer
\* of every earlier open have terminated (the cancelled sibling included).
C2_OneLiveSession ==
    /\ \A s1, s2 \in Sessions :
          s1 # s2 => /\ ~(Active(cPc[s1]) /\ Active(cPc[s2]))
                     /\ ~(Active(pPc[s1]) /\ Active(pPc[s2]))
    /\ \A s \in Sessions : s < sess => ~Active(cPc[s]) /\ ~Active(pPc[s])

C2_Witness ==
    /\ sess = MaxSess
    /\ cPc[sess] = "recv"
    /\ pPc[sess] = "get"
    /\ \A s \in Sessions : s < sess => cPc[s] = "done" /\ pPc[s] = "done"

\* C3: in every attempt `connected` is fired exactly once if the socket was
\* opened and not at all otherwise, after the open and before the consumer and
\* the producer are created, so before any inbound frame is dispatched.
C3_ConnectedOncePerOpen ==
    /\ Count(sessLog, "open") <= 1
    /\ Count(sessLog, "connected") = Count(sessLog, "open")
    /\ \A i, j \in DOMAIN sessLog :
          /\ sessLog[i] = "open" /\ sessLog[j] = "connected" => i < j
          /\ sessLog[i] = "connected" /\ sessLog[j] \in {"tasks", "dispatch"} => i < j
    /\ runPc \in {"negotiating", "connecting"} => sessLog = << >>
    /\ sess > 0 /\ (Active(cPc[sess]) \/ Active(pPc[sess])) => Count(sessLog, "connected") = 1

C3_Witness ==
    /\ sess = MaxSess
    /\ sessLog = << "open", "connected", "tasks", "dispatch" >>
    /\ cPc[sess] = "dispatch"

\* C5: a close() issued before run() begins is honoured by run(): run returns
\* without negotiating, connecting or sleeping a reconnect delay.
C5_CloseBeforeRunHonoured ==
    closedBeforeRun => runPc \in {"idle", "done"}

\* C6: once close() was called while run() was executing, run() returns, the
\* returned state is terminal, and from the close request on no negotiation
\* and no reconnect delay is started.
C6_CloseTerminatesRun ==
    /\ [](closedInRun => <>(runPc = "done"))
    /\ [][runPc = "done" => runPc' = "done"]_vars
    /\ [][closedInRun => /\ (runPc' = "negotiating" => runPc = "negotiating")
                         /\ (runPc' = "sleeping" => runPc = "sleeping")]_vars

C6_Witness ==
    /\ closedInRun
    /\ runPc = "done"
    /\ sess > 0
    /\ ~started

\* The producer of open s is blocked in get(), no cancel() was called on it,
\* and the event at the head of the queue is the CloseEvent: close() was
\* called while it waited on the empty queue.
PoisonPending(s) ==
    /\ pPc[s] = "get"
    /\ ~pCancel[s]
    /\ invoke_queue # << >>
    /\ Head(invoke_queue).kind = "Close"

\* C7 as stated: a producer blocked on an empty queue when close() is called
\* ends by dequeuing the CloseEvent, writing nothing.
C7_ProducerDequeuesPill ==
    [][\A s \in Sessions :
          PoisonPending(s) /\ ~PoisonPending(s)' =>
              /\ pPc'[s] = "done"
              /\ invoke_queue' = Tail(invoke_queue)
              /\ wire' = wire]_vars

\* C7 as amended: a producer blocked on an empty queue when close() is called
\* writes nothing more and ends, either by dequeuing the CloseEvent or, when
\* its consumer had already finished, by the cancel() of _master_handler (the
\* CloseEvent then stays queued); the session ends and run() returns.
C7_PoisonPill ==
    /\ [][\A s \in Sessions :
            PoisonPending(s) /\ ~PoisonPending(s)' =>
                /\ wire' = wire
                /\ \/ pPc'[s] = "done" /\ invoke_queue' = Tail(invoke_queue)
                   \/ /\ pCancel'[s] /\ cPc[s] = "done" /\ pPc'[s] = "get"
                      /\ invoke_queue' = invoke_queue]_vars
    /\ \A s \in Sessions :
          [](PoisonPending(s) => <>(pPc[s] = "done" /\ ~started /\ runPc = "done"))

C7_Witness ==
    /\ sess > 0
    /\ PoisonPending(sess)
    /\ cPc[sess] = "recv"
    /\ Len(invoke_queue) = 1
    /\ runPc = "master_wait"

\* C8: while close was not requested no failure ends run(): it never crashes,
\* it returns only after a close request, every failed negotiation, connect or
\* session leaves started false and leads to the reconnect delay, and the
\* delay is always followed by a new negotiation.
C8_FailuresAbsorbed ==
    /\ [](runPc # "crashed" /\ (runPc = "done" => should_close))
    /\ [][~should_close /\ runPc' # runPc =>
            \/ runPc = "idle" /\ runPc' = "negotiating"
            \/ runPc = "negotiating" /\ runPc' = "connecting"
            \/ runPc = "connecting" /\ runPc' = "master_wait"
            \/ runPc = "master_wait" /\ runPc' = "closing_ws"
            \/ runPc = "sleeping" /\ runPc' = "negotiating"
            \/ runPc' = "sleeping" /\ ~started']_vars
    /\ [](runPc = "sleeping" => <>(runPc = "negotiating" \/ should_close))

C8_Witness ==
    /\ ~should_close
    /\ closeCalls = 0
    /\ runPc = "negotiating"
    /\ sess = MaxSess
    /\ ~started

\* C9: every InvokeEvent accepted by send is still in the queue, is being
\* written by a producer, or has been written to a socket.
C9_NoSilentDrop ==
    \A i \in 0..send_counter :
        \/ \E k \in DOMAIN invoke_queue :
              invoke_queue[k].kind = "Invoke" /\ invoke_queue[k].I = i
        \/ \E k \in DOMAIN wire : wire[k] = i
        \/ \E s \in Sessions : pPc[s] = "send" /\ pHeld[s].I = i

\* Two names are equal ignoring case: same length, and at every position the
\* same character or the two cases of one letter.
EqIgnoreCase(a, b) ==
    /\ Len(a) = Len(b)
    /\ \A i \in DOMAIN a :
          \/ a[i] = b[i]
          \/ \E c \in 65..90 : {a[i], b[i]} = {c, c + 32}

\* An inner frame that the claim says is dispatched: addressed to this hub,
\* ignoring case, with a handler registered for its method.
C4_Dispatched(f) ==
    f.hasH /\ EqIgnoreCase(f.H, hubName) /\ handlers[f.M] # NoHandler

\* C4: the calls made for an envelope are, in list order, exactly one call of
\* the handler registered for frame.M with frame.A for each inner frame whose
\* H equals the hub's name ignoring case; a frame that names another hub or
\* has no H causes no call.
C4_DispatchByHubName ==
    hubBusy =>
        LET sel == SelectSeq(hubIn, C4_Dispatched)
        IN  /\ Len(hubCalls) = Len(sel)
            /\ \A i \in DOMAIN sel :
                  hubCalls[i] = [h |-> handlers[sel[i].M], a |-> sel[i].A]

C4_Witness ==
    /\ hubBusy
    /\ Len(hubIn) = MaxFrames
    /\ hubIn[1].hasH /\ hubIn[1].H # hubName /\ EqIgnoreCase(hubIn[1].H, hubName)
    /\ hubIn[MaxFrames].H = NameOther
    /\ Len(hubCalls) = MaxFrames - 1
    /\ hubCalls[1].a = hubIn[1].A

\* What _exit leaves behind: the flag set, stop() called on the connection
\* object the client held, which is then neither open nor opening, the sink
\* closed and start() returned.
Terminated ==
    /\ mPc = "returned"
    /\ manually_closed
    /\ sink = "closed"
    /\ exitStopped # 0

\* C10: when the supervisor, having found the client connected, evaluates the
\* startup policy, it calls _exit if and only if no message was received since
\* the latest _on_connect reset the flag, timeout is not 0 and
\* now - connection_start_time exceeds timeout; that _exit sets the
\* manually-closed flag, stops the connection, closes the sink and start()
\* returns; with timeout = 0 the startup policy never fires.
C10_StartupPolicy ==
    /\ [][mPc = "sup_check" /\ mPc' # mPc
              /\ ~has_received /\ timeout # 0 /\ ageConn > timeout =>
            mPc' = "exit_flag"]_vars
    /\ [][startupExit' # startupExit =>
            /\ mPc = "sup_check" /\ mPc' = "exit_flag" /\ startupExit'
            /\ ~has_received /\ timeout # 0 /\ ageConn > timeout]_vars
    /\ [][\A c \in Conns : wsPc[c] = "oc_received" /\ wsPc'[c] # wsPc[c] => ~has_received']_vars
    /\ [](timeout = 0 => ~startupExit)
    /\ [](startupExit /\ mPc = "returned" => Terminated)
    /\ [](startupExit => <>Terminated)
    /\ [][exitStopped' # exitStopped =>
            exitStopped' = cur /\ cstate'[cur] \notin {"starting", "open"}]_vars

C10_Witness ==
    /\ startupExit
    /\ Terminated
    /\ exitStopped > 0
    /\ timeout = MaxTimeout
    /\ cstate[exitStopped] = "closed"
    /\ ~is_connected

\* The supervisor is about to evaluate its policies and the stall policy
\* applies: a message was received and the last one is older than 15 s.
StallCase ==
    mPc = "sup_check" /\ has_received /\ ageMsg > StallThreshold

\* C11: when the stall policy applies, the supervisor's step stops the current
\* connection and nothing else: the manually-closed flag, the sink and the
\* startup exit are untouched, _exit is not entered and the supervisor goes on
\* to its next round; a stop() is made by the supervisor's loop in no other
\* case; the only way from there into _exit is the user's interrupt.
C11_StallPolicy ==
    /\ [][StallCase /\ mPc' # mPc =>
            /\ UNCHANGED << manually_closed, sink, startupExit, is_connected >>
            /\ \/ /\ mPc' = "sup_loop"
                  /\ cstate' = Stop(cstate, cur)
                  /\ cstate'[cur] \notin {"starting", "open"}
               \/ mPc' = "exit_flag" /\ cstate' = cstate]_vars
    /\ [][mPc = "sup_check" /\ mPc' = "sup_loop" /\ cstate' # cstate => StallCase]_vars
    /\ [](StallCase => <>(mPc \in {"sup_loop", "exit_flag"}))

C11_Witness ==
    /\ mPc = "sup_loop"
    /\ has_received /\ ageMsg > StallThreshold
    /\ is_connected /\ ~manually_closed /\ sink = "open"
    /\ cur = 1 /\ cstate[cur] = "closing" /\ wsPc[cur] = "idle"
    /\ ~reconnecting
    /\ RThreads = 0

\* C15: _send_subscribe sends at most 3 times: a pass whose send succeeds ends
\* the method with no stop(); a failed first or second pass leads to the next
\* pass and stops nothing; the failed third pass stops the connection and ends
\* the method; no pass touches the manually-closed flag, the sink or the
\* thread of start().
C15_SubscribeAttempts ==
    /\ [](\A c \in Conns :
            /\ attempt[c] \in 0..(SubscribeAttempts - 1)
            /\ attempt[c] # 0 => wsPc[c] = "subscribe")
    /\ [][\A c \in Conns :
            wsPc[c] = "subscribe" /\ << wsPc'[c], attempt'[c] >> # << wsPc[c], attempt[c] >> =>
                /\ UNCHANGED << manually_closed, sink, mPc, is_connected >>
                /\ \/ wsPc'[c] = "idle" /\ attempt'[c] = 0 /\ cstate' = cstate
                   \/ /\ attempt[c] < SubscribeAttempts - 1
                      /\ wsPc'[c] = "subscribe" /\ attempt'[c] = attempt[c] + 1
                      /\ cstate' = cstate
                   \/ /\ attempt[c] = SubscribeAttempts - 1
                      /\ wsPc'[c] = "idle" /\ attempt'[c] = 0
                      /\ cstate' = Stop(cstate, cur)]_vars

C15_Witness ==
    /\ cur = 1 /\ cstate[1] = "open"
    /\ wsPc[1] = "subscribe"
    /\ attempt[1] = SubscribeAttempts - 1
    /\ ~manually_closed

\* The Subscribe invocations waiting in a queue.
Subscribes(q) == {k \in DOMAIN q : q[k].M = "Subscribe"}

\* C14: the step in which `connected` fires makes one invoke of "Subscribe"
\* whose only argument is the topic list: it takes the next sequence id, never
\* used before, and is in the queue when the consumer and the producer have
\* been created and not yet run; if the invoke raises, nothing is enqueued and
\* the session goes on just the same; no other step enqueues a Subscribe.
C14_SubscribeOnConnect ==
    /\ [][sess' # sess =>
            /\ sess' = sess + 1 /\ runPc' = "master_wait" /\ started'
            /\ cPc'[sess'] = "ready" /\ pPc'[sess'] = "ready"
            /\ \/ /\ invoke_queue' = Append(invoke_queue,
                        [kind |-> "Invoke", M |-> "Subscribe", A |-> << Topics >>,
                         I |-> send_counter + 1])
                  /\ send_counter' = send_counter + 1
                  /\ assigned' = Append(assigned, send_counter + 1)
                  /\ \A k \in DOMAIN assigned : assigned[k] # send_counter + 1
               \/ UNCHANGED << invoke_queue, send_counter, assigned >>]_vars
    /\ [][Cardinality(Subscribes(invoke_queue')) > Cardinality(Subscribes(invoke_queue)) =>
            sess' = sess + 1]_vars

C14_Witness ==
    /\ sess = MaxSess
    /\ pPc[sess] = "ready"
    /\ invoke_queue # << >>
    /\ invoke_queue[Len(invoke_queue)].M = "Subscribe"
    /\ invoke_queue[Len(invoke_queue)].A = << Topics >>
    /\ invoke_queue[Len(invoke_queue)].I = send_counter
    /\ send_counter > 0

\* C17: a malformed frame received by the consumer of the current session is
\* dropped and the consumer stays in its loop, waiting for the next frame,
\* unless close was requested.
C17_MalformedDropped ==
    [][sessLog' # sessLog /\ sessLog' # << >>
         /\ sessLog'[Len(sessLog')] = "malformed" /\ ~should_close =>
            /\ cPc'[sess] = "recv"
            /\ ~cCancel'[sess]]_vars

\* C19: HubClient.on keeps at most one handler per method and the first
\* registration wins: a call on(m, h) registers h when m has no handler and
\* leaves the table as it was when m has one, so after on(m, h1), on(m, h2)
\* the handler of m, the one frames are dispatched to, is h1.
C19_FirstRegistrationWins ==
    /\ [][hubCall'.op = "on" /\ (hubCall' # hubCall \/ handlers' # handlers) =>
            LET m == hubCall'.m
                h == hubCall'.h
            IN  /\ handlers[m] = NoHandler => handlers' = [handlers EXCEPT ![m] = h]
                /\ handlers[m] # NoHandler => handlers' = handlers]_vars
    /\ [](hubBusy => \A i \in DOMAIN hubCalls :
            \E f \in {hubIn[k] : k \in DOMAIN hubIn} : hubCalls[i].h = handlers[f.M])

C19_Witness ==
    /\ hubCall = [op |-> "on", m |-> "feed", h |-> "h2", raised |-> FALSE]
    /\ handlers["feed"] = "h1"

\* C20: HubClient.off(m, h) removes the handler of m when m is registered,
\* and does nothing and raises nothing when m is not registered.
C20_OffUnregisters ==
    [][hubCall'.op = "off" /\ hubCall' # hubCall =>
            LET m == hubCall'.m
            IN  /\ ~hubCall'.raised
                /\ handlers'[m] = NoHandler
                /\ \A o \in Methods \ {m} : handlers'[o] = handlers[o]]_vars

\* C18: an envelope with an 'E' field is re-fired on the `error` hook, with
\* the error value, by handle_error, which runs first among the subscribers
\* of `received`; the hub's dispatch still runs for the envelope and the
\* fire returns to the consumer without an exception, in debug mode too; an
\* envelope without 'E' fires nothing on `error`.
C18_ErrorEnvelope ==
    hubBusy =>
        /\ errorFired = IF hubErr # NoError THEN << hubErr >> ELSE << >>
        /\ Len(recvRan) >= 2 /\ recvRan[1] = "handle_error" /\ recvRan[2] = "handle"
        /\ debug => recvRan = << "handle_error", "handle", "_on_debug" >>
        /\ ~hookRaised
        /\ hubCalls = HubClientHandle(hubName, handlers, hubIn).calls

C18_Witness ==
    /\ hubBusy /\ debug
    /\ hubErr \in ErrorValues /\ errorFired = << hubErr >>
    /\ hookLogged = 1 /\ ~hookRaised
    /\ hubCalls # << >>


\* The step of _on_message that decides about message k: lines 63-83.
Decides(k) == k \in DOMAIN msgLog /\ msgLog[k].st \in MsgKinds /\ msgLog'[k] # msgLog[k]

C12_EndToEnd ==
    /\ [][\A k \in 1..MaxMsgs :
            Decides(k) /\ msgLog[k].c = 1 /\ msgLog[k].st = "list" /\ ~manually_closed =>
                written' = Append(written, k)]_vars
    /\ [](\A i, j \in DOMAIN written : i < j => written[i] < written[j])
    /\ [](\A i \in DOMAIN written :
            msgLog[written[i]].c > 1 => cstate[msgLog[written[i]].c] \in {"open", "closing", "closed"})
    /\ [][mPc = "sup_check" /\ mPc' = "sup_loop" /\ cstate' # cstate =>
            \E k \in DOMAIN msgLog : msgLog[k].c = cur]_vars

\* C13: whatever ends the run of SignalRClient, the timeout of _supervise,
\* an interrupt, or both close together, the file is closed exactly once:
\* never twice, and once when asyncio.run is over.
C13_SinkClosedOnce ==
    /\ fileCloses <= 1
    /\ aPc = "returned" /\ output_file # "none" => fileCloses = 1 /\ output_file = "closed"

\* C21: before the connection is started every call register_hub(name)
\* returns the Hub of that name, and the name has one Hub: a second call
\* returns the Hub the first one made and makes none.
C21_RegisterHubIdempotent ==
    [][hubRet' # hubRet /\ ~started =>
            /\ hubRet'.ret = "hub"
            /\ Registered(hubs', hubRet'.name)
            /\ Cardinality({i \in DOMAIN hubs' : hubs'[i] = hubRet'.name}) = 1
            /\ hubsMade' = Len(hubs')]_vars

\* C22: while `started` is true register_hub raises for every name, a name
\* registered before the start included, and the hub mapping is as it was.
C22_RegisterHubWhileStarted ==
    [][hubRet' # hubRet /\ started =>
            hubRet'.ret = "raised" /\ hubs' = hubs /\ hubsMade' = hubsMade]_vars

\* C23: Connection.start raises when no hub is registered and the transport
\* is then never run (no negotiation, no session, started stays false); with
\* a hub registered the first-registered one becomes the active hub, run()
\* is entered, and start returns only after close() was called during the
\* run.
C23_ConnectionStart ==
    /\ [][startPc = "idle" /\ startPc' # "idle" =>
            IF hubs = << >>
            THEN startPc' = "raised" /\ UNCHANGED tvars
            ELSE /\ activeHub' = hubs[1] /\ startPc' = "run"
                 /\ runPc' = "negotiating" /\ ~should_close']_vars
    /\ [](startPc = "raised" => runPc = "idle" /\ ~started /\ sess = 0)
    /\ [](runPc # "idle" => startPc = "run" /\ activeHub = hubs[1])
    /\ [](runPc \in {"done", "crashed"} => runPc = "done" /\ should_close /\ closedInRun)

C23_Witness ==
    /\ startPc = "run" /\ runPc = "done"
    /\ hubs = << "Other", "Streaming" >> /\ activeHub = "Other"
    /\ sess > 0

\* The lines gone through that are still no JSON after the normalization,
\* and the payloads the others contribute.
FailsDecoding(line) == line.syntax \in {"apostrophe", "unbalanced", "none"}

RECURSIVE ExpectedErrors(_)
ExpectedErrors(n) ==
    IF n = 0 THEN 0
    ELSE ExpectedErrors(n - 1) + (IF FailsDecoding(rawIn[n]) THEN 1 ELSE 0)

RECURSIVE ExpectedMessages(_)
ExpectedMessages(n) ==
    IF n = 0 THEN << >>
    ELSE ExpectedMessages(n - 1) \o
         (IF FailsDecoding(rawIn[n]) THEN << >>
          ELSE SelectSeq([k \in DOMAIN rawIn[n].M |-> PayloadOf(n, k)],
                         LAMBDA p : LET f == rawIn[n].M[p - 10 * n]
                                    IN  f.hasH /\ EqIgnoreCase(f.H, NameLower)))

C25_AuthFallback ==
    /\ [](mPc = "raised" =>
            /\ ~tokenOk /\ cur = 0 /\ RThreads = 0 /\ ~is_connected
            /\ \A c \in Conns : cstate[c] = "new"
            /\ savePc \in {"except", "legacy_made", "legacy_running"})
    /\ [](mPc \notin {"init", "raised"} => tokenOk)
    /\ [][savePc = "except" /\ savePc' # savePc =>
            /\ savePc' = "legacy_made"
            /\ legacyClient'.file = saveArgs.file
            /\ legacyClient'.topics = saveArgs.topics
            /\ legacyClient'.timeout = saveArgs.timeout
            /\ lTimeout' = saveArgs.timeout]_vars
    /\ [](savePc = "legacy_running" =>
            aPc = "wait" /\ output_file = "open" /\ lTimeout = saveArgs.timeout)

C25_Witness ==
    /\ savePc = "legacy_running" /\ mPc = "raised"
    /\ saveArgs.auth /\ ~tokenOk /\ saveArgs.timeout # 0
    /\ legacyClient.file = "b.txt" /\ coreClient.file = "b.txt"
    /\ aPc = "wait"

\* C26: a turn of the legacy supervisor sets the exit signal exactly when
\* the connection is started, timeout > 0 and the last data is older than
\* timeout; with timeout = 0 the supervisor never sets it (only the handler
\* of a keyboard interrupt does, after the run). Once the supervisor has set
\* the signal the client shuts down: close() is requested of the connection
\* once, and then the sink is closed (a keyboard interrupt during the
\* shutdown is the one thing that can come between).
C26_SupervisorSets ==
    supPc = "loop" /\ supPc' = "done" /\ aPc' = aPc /\ ~exit_signal /\ exit_signal'

C26_LegacyTimeout ==
    /\ [][supPc = "loop" /\ supPc' # supPc /\ aPc' = aPc /\ ~exit_signal =>
            (exit_signal' <=> connMade /\ lStarted /\ lTimeout > 0 /\ lAge > lTimeout)]_vars
    /\ [][C26_SupervisorSets /\ sigints = 0 => aPc = "wait" /\ connCloses = 0 /\ output_file = "open"]_vars
    /\ [](lTimeout = 0 /\ exit_signal => sigints > 0 /\ aPc = "returned")
    /\ [](exit_signal /\ sigints = 0 =>
            /\ lTimeout > 0 /\ connMade
            /\ (output_file = "closed" => connCloses = 1 /\ aPc \in {"done", "returned"})
            /\ (aPc \in {"fin_sleep", "done", "returned"} => connCloses = 1))
    /\ [][output_file = "open" /\ output_file' = "closed" /\ exit_signal /\ sigints = 0 =>
            connCloses = 1]_vars
    /\ ((supPc \in {"loop", "sleep"} /\ connMade /\ lStarted /\ lTimeout > 0 /\ lAge > lTimeout)
            ~> (exit_signal \/ ~lStarted \/ lAge = 0 \/ sigints > 0))
    /\ ((exit_signal /\ sigints = 0)
            ~> ((aPc = "returned" /\ connCloses = 1 /\ output_file = "closed") \/ sigints > 0))

C26_Witness ==
    /\ exit_signal /\ sigints = 0 /\ lTimeout = MaxTimeout /\ lAge > lTimeout /\ lStarted
    /\ aPc = "returned" /\ connCloses = 1 /\ output_file = "closed" /\ fileCloses = 1

\* C27: whatever the pre-flight negotiation request does (a cookie, no
\* cookie, a network error, a timeout), _configure_connection does not raise:
\* the connection object is built with the headers there are (the cookie of
\* the response, an empty cookie, or the headers from before), its on_open,
\* on_close and feed callbacks are registered, and the caller goes on to
\* start() as after a successful negotiation.
C27_NegotiationNotFatal ==
    /\ [](\A c \in Conns :
            IF c <= cur
            THEN /\ connObj[c].built
                 /\ connObj[c].callbacks = {"on_open", "on_close", "feed"}
                 /\ connObj[c].negotiation \in Negotiations
                 /\ (connObj[c].negotiation \in {"cookie1", "cookie2", "nocookie"}
                        => connObj[c].headers = CookieOf(connObj[c].negotiation))
            ELSE connObj[c] = NoConn)
    /\ [](cur > 0 => connObj[cur].headers = headers)
    /\ [][mPc = "run_configure" /\ mPc' # mPc =>
            mPc' = "run_start" /\ cur' = cur + 1]_vars
    /\ [][rAt["sleep"] > rAt'["sleep"] =>
            rAt'["start"] = rAt["start"] + 1 /\ cur' = cur + 1]_vars
    /\ [][cur' # cur /\ NegotiationRaises(connObj'[cur'].negotiation) =>
            headers' = headers]_vars
    /\ [](mPc = "run_start" => ENABLED RunStart_Core(TRUE))

C27_Witness ==
    /\ cur = 2
    /\ connObj[1].negotiation = "timeout" /\ connObj[1].headers = NoHeader
    /\ connObj[2].negotiation = "network_error"
    /\ cstate[1] = "starting" /\ cstate[2] = "starting"

\* C28: an inner frame addressed to this hub whose method has no handler
\* costs one warning and nothing else: every other addressed frame of the
\* envelope is still given to its handler, in the order of the envelope,
\* received.fire does not raise, and the consumer goes on to its next frame.
C28_Addressed(f) == Lower(GetH(f)) = Lower(hubName)

C28_Handled(f) == C28_Addressed(f) /\ handlers[f.M] # NoHandler

C28_Unhandled(f) == C28_Addressed(f) /\ handlers[f.M] = NoHandler

C28_NoHandlerDropped ==
    hubBusy =>
        LET todo == SelectSeq(hubIn, C28_Handled)
        IN  /\ hubWarnings = Len(SelectSeq(hubIn, C28_Unhandled))
            /\ hubCalls = [i \in 1..Len(todo) |-> [h |-> handlers[todo[i].M], a |-> todo[i].A]]
            /\ ~hookRaised
            /\ ENABLED HubReturn

C28_Witness ==
    /\ hubBusy /\ Len(hubIn) = 2
    /\ C28_Unhandled(hubIn[1]) /\ C28_Handled(hubIn[2])
    /\ hubWarnings = 1
    /\ hubCalls = << [h |-> handlers["feed"], a |-> ArgOf("feed")] >>

\* C30: Connection.started is true exactly while run() is inside the
\* `async with` of an open socket: it is set only by a successful connect,
\* as the first statement of the session and so before `connected` fires;
\* every way out of the session (the handlers ended, an exception of the
\* socket's close, the cancellation of run) sets it false; it is false
\* before run(), during negotiation and connect, during the reconnect delay
\* and after run() has ended.
C30_InSession == runPc \in {"master_wait", "closing_ws"}

C30_StartedInSession ==
    /\ [](started <=> C30_InSession)
    /\ [](\E i, j \in DOMAIN SessionSteps :
            i < j /\ SessionSteps[i] = "set_started" /\ SessionSteps[j] = "fire_connected")
    /\ [][~started /\ started' =>
            /\ runPc = "connecting" /\ runPc' = "master_wait"
            /\ sess' = sess + 1
            /\ sessLog'[1] = "open"
            /\ \E k \in DOMAIN sessLog' : sessLog'[k] = "connected"]_vars
    /\ [][C30_InSession /\ ~C30_InSession' => ~started']_vars
    /\ [](runPc \in {"idle", "negotiating", "connecting", "sleeping", "done",
                     "cancel_sleep", "cancelled"} => ~started)

C30_Witness ==
    /\ runPc = "cancel_sleep" /\ ~started
    /\ sess = 2 /\ cPc[2] = "recv" /\ pPc[2] = "get"
    /\ ~should_close

\* C29: in a session the consumer and the producer are raced. When
\* _master_handler resumes it cancels exactly the task that has not
\* finished, and once either task has finished both end and run() leaves
\* the session: none goes on with one task only, and the tasks of an earlier
\* session are over when the next one exists. While both run neither holds
\* the other up: a consumer at recv() or in a handler can take its step
\* whatever the producer waits for, and a producer with an event to write
\* or to take can take its step whatever the consumer waits for.
C29_OneDone(s) == cPc[s] = "done" \/ pPc[s] = "done"

C29_BothDone(s) == cPc[s] = "done" /\ pPc[s] = "done"

C29_Race ==
    /\ [][runPc = "master_wait" /\ runPc' # runPc =>
            /\ C29_OneDone(sess)
            /\ cCancel'[sess] = (cPc[sess] # "done")
            /\ pCancel'[sess] = (pPc[sess] # "done")]_vars
    /\ [](\A s \in Sessions : s < sess => C29_BothDone(s) \/ cCancel[s] \/ pCancel[s])
    /\ [](\A s \in Sessions :
            (cCancel[s] \/ pCancel[s]) => s = sess /\ runPc \notin {"master_wait", "negotiating", "connecting"})
    /\ [](\A s \in {sess} \cap Sessions :
            /\ (cPc[s] = "recv" /\ ~cCancel[s] => ENABLED ConsRecv(s))
            /\ (cPc[s] = "dispatch" /\ ~cCancel[s] => ENABLED ConsDispatchDone(s))
            /\ (pPc[s] = "send" /\ ~pCancel[s] => ENABLED ProdSendOk(s))
            /\ (pPc[s] = "get" /\ ~pCancel[s] /\ invoke_queue # << >> => ENABLED ProdWake(s)))
    /\ (\E s \in Sessions : C29_OneDone(s) /\ ~C29_BothDone(s))
            ~> (\A s \in Sessions :
                    C29_OneDone(s) => C29_BothDone(s) /\ ~(runPc = "master_wait" /\ sess = s))

C29_Witness ==
    /\ sess = 1 /\ runPc = "closing_ws"
    /\ cPc[1] = "done" /\ pPc[1] = "send" /\ pCancel[1] /\ ~cCancel[1]
    /\ ~should_close

\* C31: the outbound queue is one FIFO for all the sessions of a
\* Connection. invoke() can be called in every state of run() and only
\* appends; while no producer is live the queue loses nothing; the ids
\* waiting in the queue are in the order of the calls and all later than
\* every id written; so the ids on the wire are strictly increasing over
\* all the sessions.
C31_Ids(q) == [i \in DOMAIN SelectSeq(q, LAMBDA e : e.kind = "Invoke") |->
                    SelectSeq(q, LAMBDA e : e.kind = "Invoke")[i].I]

C31_Increasing(seq) == \A i, j \in DOMAIN seq : i < j => seq[i] < seq[j]

C31_Prefix(a, b) == Len(a) <= Len(b) /\ \A i \in DOMAIN a : a[i] = b[i]

C32_Live == {c \in Conns : cstate[c] \in {"starting", "open"}}

C32_OneLiveConnection ==
    /\ Cardinality(C32_Live) <= 1
    /\ RThreads <= 1
    /\ \A c \in Conns : c < cur => cstate[c] \notin {"starting", "open"}

\* C33: once _exit has set _manually_closed no connection object is built,
\* none is started and no reconnect thread is started.
C33_NothingAfterExit ==
    [][manually_closed =>
        /\ cur' = cur
        /\ \A c \in Conns : cstate[c] = "new" => cstate'[c] = "new"
        /\ RThreads' <= RThreads]_vars

\* C34: SignalRCoreClient is never left disconnected for good: there is no
\* state past start-up in which it is neither connected nor manually closed,
\* no reconnect thread exists, and no connection is left whose callbacks
\* could start one.
C34_Stuck ==
    /\ mPc \in {"sup_loop", "sup_check"}
    /\ ~is_connected /\ ~manually_closed
    /\ RThreads = 0
    /\ \A c \in Conns : cstate[c] \in {"new", "closed"} /\ wsPc[c] = "idle"

C34_NeverStuck == ~C34_Stuck

\* C35: no message handler calls write on the sink after the shutdown
\* sequence has closed it: no message ends as a write that the closed file
\* refused.
C35_NoWriteAfterClose ==
    \A k \in DOMAIN msgLog : msgLog[k].st = "failed" => sink # "closed"

\* C36: once close() has been requested during run(), no session is opened
\* any more: `connected` is not fired again and no "Subscribe" is enqueued.
C36_NoConnectedAfterClose ==
    [][should_close /\ runPc # "idle" =>
        /\ sess' = sess
        /\ (send_counter' # send_counter =>
                invoke_queue'[Len(invoke_queue')].M # "Subscribe")]_vars

C38_SinkClosedOnEveryExit ==
    /\ (mPc \in {"raised", "returned"} => sink # "open")
    /\ (aPc = "returned" => output_file # "open")

\* C39: neither supervisor acts on a disconnected client: the legacy
\* supervisor sets the exit signal only while Connection.started is true, and
\* the supervisor of SignalRCoreClient calls _exit or stop() only while
\* _is_connected is true.
C39_SupervisorActs ==
    /\ mPc = "sup_check"
    /\ \/ startupExit' # startupExit
       \/ mPc' = "sup_loop" /\ cstate' # cstate

C39_IdleWhileDisconnected ==
    /\ [][C39_SupervisorActs => is_connected]_vars
    /\ [][C26_SupervisorSets => lStarted]_vars

====
